---- MODULE Spec2Model ----
(***************************************************************************)
(* The reflect agent loop of hindsight-api (engine/reflect/agent.py):      *)
(* run_reflect_agent as a state machine.  One session is modelled: the     *)
(* for-loop over iterations, the tool-offering LLM call and the forced     *)
(* final call as suspension points, the concurrent execution of the tool   *)
(* calls of one response (asyncio.gather), the processing of their results *)
(* after the fan-in, and _process_done_tool.                               *)
(***************************************************************************)
EXTENDS Integers, Sequences, FiniteSets, TLC

\* ------------------------------------------------------------------ bounds
\* most templates in one answer of the LLM to the structural derivation
MaxTemplates == 4
\* most structural models a bank has when the derivation runs
MaxExisting == 2
\* most evidence entries of one observation or candidate at the start
MaxEvidence == 2
\* largest max_iterations a session is started with
MaxIterations == 3
\* most tool calls in one LLM response
MaxCalls == 2
\* most non-completion tool calls executed in one session
MaxToolCalls == 2
\* most request tags, and the largest parameter number of a tags filter
MaxTags == 2
MaxParam == 5
\* most calls made to one ConfigResolver
MaxConfigCalls == 3

\* identifiers of facts and of mental models that exist in the store
MemIds == {"m1", "m2"}
StoredModelIds == {"mm1"}
\* identifier handed out by the learn collaborator
LearnedModelId == "mm2"
\* identifiers the learn collaborator hands out
LearnedModelIds == {LearnedModelId, "mm3"}
ModelIds == StoredModelIds \cup {LearnedModelId}

VARIABLES
    max_iterations,         \* parameter max_iterations
    output_mode,            \* parameter output_mode
    enable_learn,           \* learn_fn is not None
    pc,                     \* position of the coroutine
    iteration,              \* loop variable of "for iteration in range(max_iterations)"
    messages,               \* conversation sent to the tool-offering call
    mental_models_created,
    total_tools_called,
    tool_trace,
    llm_trace,
    context_history,
    available_memory_ids,
    available_model_ids,
    request,                \* the LLM call that is awaited, if any
    tasks,                  \* the tool tasks of the running asyncio.gather
    completion_order,       \* history: completion order of the latest round, cleared at the next loop head
    outstanding,            \* history: ids of the tool tasks started and not yet finished
    result,                 \* what the caller got
    llm_calls,              \* history: every LLM call issued, with its outcome
    surfaced_memory_ids,    \* history: fact ids in any tool output so far
    surfaced_model_ids,     \* history: model ids in any tool output so far
    twin                    \* the same session run with the other output_mode, given the same responses

\* one call of the dispatcher _execute_tool, taken by itself
VARIABLES
    tool_name,              \* parameter tool_name
    tool_args,              \* parameter args: the arguments given with a value
    learn_fn,               \* parameter learn_fn is not None
    dispatch,               \* "called", then "returned" or "raised"
    tool_result,            \* what the call returned
    invoked                 \* the collaborator that was awaited, if any

\* one call of derive_structural_models
VARIABLES
    existing_models,        \* parameter existing_models
    llm_templates,          \* result.templates as the LLM gave them
    derive,                 \* "called", then "returned" or "raised"
    templates,              \* first element of the returned tuple
    models_to_remove        \* second element of the returned tuple

\* the Validate and Compare stages of the consolidation of one topic
VARIABLES
    candidates,             \* the candidates with the facts retrieved for them
    strict,                 \* sparse evidence is discarded
    stored_observations,    \* the persisted observations of the topic
    new_observations,       \* what Validate handed to Compare
    stage,                  \* "validate", "compare", "done"
    runs,                   \* complete runs of Validate then Compare
    after_first_run,        \* history: the persisted observations after the first run
    discarded,              \* the candidates Validate listed as discarded
    compare_prompt          \* the user prompt of the Compare call

\* the two builders of the tags filter called with the same arguments
VARIABLES
    tags,                   \* [none, list]: None, or the list of request tags
    param_offset,           \* param_offset / param_num
    table_alias,
    match,
    clause_result,          \* <<clause, params, next offset>> once returned
    simple_result           \* <<clause>> once returned

\* a ConfigResolver over the banks table and the tenant extension
VARIABLES
    bank_config,            \* banks.config of every bank
    tenant_extension,       \* a tenant extension was given to the resolver
    tenant_overrides,       \* what get_tenant_config returns for the tenant
    config_call,            \* the last call: operation, arguments, outcome
    config_calls,           \* number of calls made
    pristine                \* history: banks reset and not updated since

reflect_vars == <<max_iterations, output_mode, enable_learn, pc, iteration, messages,
          mental_models_created, total_tools_called, tool_trace, llm_trace,
          context_history, available_memory_ids, available_model_ids, request,
          tasks, completion_order, outstanding, result, llm_calls, surfaced_memory_ids,
          surfaced_model_ids, twin>>

dispatch_vars == <<tool_name, tool_args, learn_fn, dispatch, tool_result, invoked>>

structural_vars == <<existing_models, llm_templates, derive, templates, models_to_remove>>

consolidation_vars == <<candidates, strict, stored_observations, new_observations, stage,
                        runs, after_first_run, discarded, compare_prompt>>

tags_vars == <<tags, param_offset, table_alias, match, clause_result, simple_result>>

config_vars == <<bank_config, tenant_extension, tenant_overrides, config_call, config_calls,
                 pristine>>

functions_vars == <<tags_vars, config_vars>>

vars == <<reflect_vars, dispatch_vars, structural_vars, consolidation_vars, tags_vars,
          config_vars>>

\* what a session of the agent leaves alone
apart == <<dispatch_vars, structural_vars, consolidation_vars, tags_vars, config_vars>>

\* ------------------------------------------------------------- data shapes
SeqsUpTo(S, n) == UNION {[1..k -> S] : k \in 0..n}

Range(s) == {s[i] : i \in 1..Len(s)}

\* A tool output (the dict a tool returns, or the error payload standing for it).
Payload(kind, ids, err) == [kind |-> kind, ids |-> ids, error |-> err]
ErrorPayload(reason) == Payload("error", {}, reason)
NoPayload == Payload("none", {}, "")

\* Tool names the LLM may ask for; "bogus" is a name no tool has.
ToolNames == {"list_mental_models", "get_mental_model", "recall", "learn", "expand", "bogus"}

\* arguments of a non-completion call: are the required arguments all given
NoDoneArgs == [has_observations |-> FALSE, observations |-> <<>>,
               memory_ids |-> <<>>, model_ids |-> <<>>]

\* citation lists the model may put into a done call: none, one id, two
\* ids, one id twice
MemoryCitations == {<<>>, <<"m1">>, <<"m2", "m1">>, <<"m1", "m1">>}
ModelCitations == {<<>>, <<"mm1">>, <<"mm2">>}
ObservationLists ==
    {<<>>, <<<<"m1">>>>, <<<<"m2">>, <<"m1", "m2">>>>, <<<<"m2", "m1">>, <<>>, <<"m1">>>>}

\* arguments of a done call, answer shape and observations shape
DoneArgsAnswer ==
    {[has_observations |-> FALSE, observations |-> <<>>, memory_ids |-> ms, model_ids |-> ds] :
        ms \in MemoryCitations, ds \in ModelCitations}
DoneArgsObservations ==
    {[has_observations |-> TRUE, observations |-> obs, memory_ids |-> <<>>, model_ids |-> <<>>] :
        obs \in ObservationLists}
DoneArgs == DoneArgsAnswer \cup DoneArgsObservations

ToolCallRec(id, name, args_ok, args) ==
    [id |-> id, name |-> name, args_ok |-> args_ok, args |-> args]

\* ------------------------------------------------------------ _execute_tool
\* What the external collaborators may hand back.
LookupAllOutputs == {Payload("models", StoredModelIds, "")}
LookupOneOutputs == {Payload("model", {m}, "") : m \in StoredModelIds}
                        \cup {Payload("notfound", {}, "")}
RecallOutputs == {Payload("memories", S, "") : S \in {{}, {"m1"}, MemIds}}
ExpandOutputs == {Payload("expanded", MemIds, "")}
LearnOutputs == {Payload("learned", {m}, "") : m \in LearnedModelIds}
                    \cup {Payload("learned", {}, "")}

\* the collaborators whose failure is explored
FailingTools == {"recall", "learn"}

\* A finished tool task: either the collaborator raised, or there is an output.
Returned(output) == [exc |-> FALSE, output |-> output]
Raised == [exc |-> TRUE, output |-> NoPayload]
Awaited(name, outputs) ==
    {Returned(o) : o \in outputs} \cup (IF name \in FailingTools THEN {Raised} ELSE {})

\* _execute_tool: the outcomes one call may have.
ExecuteTool(tc, learn_enabled) ==
    IF tc.name = "list_mental_models" THEN Awaited(tc.name, LookupAllOutputs)
    ELSE IF tc.name = "get_mental_model" THEN
        IF ~tc.args_ok THEN {Returned(ErrorPayload("get_mental_model requires model_id"))}
        ELSE Awaited(tc.name, LookupOneOutputs)
    ELSE IF tc.name = "recall" THEN
        IF ~tc.args_ok THEN {Returned(ErrorPayload("recall requires a query parameter"))}
        ELSE Awaited(tc.name, RecallOutputs)
    ELSE IF tc.name = "learn" THEN
        IF ~learn_enabled THEN {Returned(ErrorPayload("learn tool is not available"))}
        ELSE IF ~tc.args_ok THEN {Returned(ErrorPayload("learn requires name and description"))}
        ELSE Awaited(tc.name, LearnOutputs)
    ELSE IF tc.name = "expand" THEN
        IF ~tc.args_ok THEN {Returned(ErrorPayload("expand requires memory_ids"))}
        ELSE Awaited(tc.name, ExpandOutputs)
    ELSE {Returned(ErrorPayload("Unknown tool"))}

\* ------------------------------------------- processing of one tool result
\* output of a finished task as the loop sees it (agent.py 305-310)
OutputOf(r) == IF r.exc THEN ErrorPayload("exception") ELSE r.output

\* model ids a learn result adds to mental_models_created (agent.py 313-314)
CreatedBy(tc, r) ==
    IF ~r.exc /\ tc.name = "learn" /\ r.output.kind = "learned" /\ r.output.ids # {}
    THEN <<CHOOSE x \in r.output.ids : TRUE>>
    ELSE <<>>

\* a registry that takes the fact ids of any result that shows some
MemoryIdsFromAnyTool(tc, r) ==
    IF ~r.exc /\ r.output.kind \in {"memories", "expanded"}
    THEN r.output.ids
    ELSE {}

\* fact ids a result adds to available_memory_ids (agent.py 317-320)
MemoryIdsFrom(tc, r) ==
    IF ~r.exc /\ tc.name = "recall" /\ r.output.kind = "memories"
    THEN r.output.ids
    ELSE {}

\* model ids a result adds to available_model_ids (agent.py 323-331)
ModelIdsFrom(tc, r) ==
    IF ~r.exc /\ tc.name \in {"list_mental_models", "get_mental_model"}
           /\ r.output.kind \in {"model", "models"}
    THEN r.output.ids
    ELSE {}

ToolMessage(tc, output) ==
    [role |-> "tool", tool_calls |-> <<>>, tool_call_id |-> tc.id, content |-> output]

\* an assistant message that announces the first call only
AssistantMessageFirstCallOnly(calls) ==
    [role |-> "assistant", tool_calls |-> <<calls[1].id>>,
     tool_call_id |-> 0, content |-> NoPayload]

\* agent.py 246-249, 283-288: the assistant message listing tool calls
AssistantMessage(calls) ==
    [role |-> "assistant", tool_calls |-> [i \in 1..Len(calls) |-> calls[i].id],
     tool_call_id |-> 0, content |-> NoPayload]

TextMessage(role) ==
    [role |-> role, tool_calls |-> <<>>, tool_call_id |-> 0, content |-> NoPayload]

\* ------------------------------------------------------- _process_done_tool
\* a done call whose citations are taken as they come
FilterIdsKeepAll(ids, available) == ids

\* ids kept by "[mid for mid in ids if mid in available]"
FilterIds(ids, available) == SelectSeq(ids, LAMBDA x : x \in available)

\* a list that takes every retained id, seen before or not
AppendEvery(used, ids) == used \o ids

RECURSIVE AppendNew(_, _)
\* "if mid not in used_memory_ids: used_memory_ids.append(mid)" over a list
AppendNew(used, ids) ==
    IF ids = <<>> THEN used
    ELSE AppendNew(IF Head(ids) \in Range(used) THEN used ELSE Append(used, Head(ids)),
                   Tail(ids))

RECURSIVE UsedByObservations(_, _)
UsedByObservations(used, obs) ==
    IF obs = <<>> THEN used
    ELSE UsedByObservations(AppendNew(used, Head(obs)), Tail(obs))

NoResult ==
    [via |-> "none", forced |-> FALSE, iterations |-> 0, tools_called |-> 0,
     mental_models_created |-> <<>>, tool_trace_len |-> 0,
     has_observations |-> FALSE, observations |-> <<>>,
     used_memory_ids |-> <<>>, used_model_ids |-> <<>>]

\* a ReflectAgentResult built without citations (the text and forced returns)
PlainResult(via, forced, iterations, tools_called, created, trace) ==
    [NoResult EXCEPT !.via = via, !.forced = forced, !.iterations = iterations,
                     !.tools_called = tools_called, !.mental_models_created = created,
                     !.tool_trace_len = Len(trace)]

ProcessDoneTool(done_call, mode, memory_ids, model_ids, iterations, tools_called, created, trace) ==
    LET args == done_call.args
        base == PlainResult("done", FALSE, iterations, tools_called, created, trace)
    IN  IF mode = "observations" /\ args.has_observations
        THEN LET validated == [i \in 1..Len(args.observations) |->
                                   FilterIds(args.observations[i], memory_ids)]
             IN  [base EXCEPT !.has_observations = TRUE,
                              !.observations = validated,
                              !.used_memory_ids = UsedByObservations(<<>>, validated)]
        ELSE [base EXCEPT !.used_memory_ids = FilterIds(args.memory_ids, memory_ids),
                          !.used_model_ids = FilterIds(args.model_ids, model_ids)]

\* ------------------------------------------------------ what the LLM may say
\* non-completion calls: every tool with its required arguments, and an
\* unknown tool
ToolSpecs == {ToolCallRec(0, n, TRUE, NoDoneArgs) : n \in ToolNames}
\* the non-completion calls a response may carry beside a done call
DoneSiblings == {ToolCallRec(0, "recall", TRUE, NoDoneArgs)}
DoneSpecs == {ToolCallRec(0, "done", TRUE, a) : a \in DoneArgs}

InsertAt(s, p, x) == SubSeq(s, 1, p - 1) \o <<x>> \o SubSeq(s, p, Len(s))

\* tool call ids are unique in the session
WithIds(it, s) == [i \in 1..Len(s) |-> [s[i] EXCEPT !.id = it * MaxCalls + i]]

\* responses whose tool calls are all non-completion calls
ToolResponses(it) ==
    {WithIds(it, s) : s \in SeqsUpTo(ToolSpecs, MaxCalls) \ {<<>>}}

\* responses with a done call, alone or beside non-completion calls
DoneResponses(it) ==
    UNION {{WithIds(it, InsertAt(s, p, d)) : p \in 1..(Len(s) + 1), d \in DoneSpecs} :
              s \in SeqsUpTo(DoneSiblings, 1)}

\* "next((tc for tc in result.tool_calls if tc.name == 'done'), None)"
DoneCall(calls) ==
    calls[CHOOSE i \in 1..Len(calls) :
              /\ calls[i].name = "done"
              /\ \A j \in 1..(i - 1) : calls[j].name # "done"]

\* a loop that runs only the first of the calls of a response
OtherToolsFirstOnly(calls) ==
    SubSeq(SelectSeq(calls, LAMBDA tc : tc.name # "done"), 1, 1)

\* "[tc for tc in result.tool_calls if tc.name != 'done']"
OtherTools(calls) == SelectSeq(calls, LAMBDA tc : tc.name # "done")

\* ------------------------------------------------------------ run_reflect_agent
\* an is_last that is one iteration late
IsLastOffByOne(it, max) == it = max

\* an is_last that never holds
IsLastNever(it, max) == FALSE

\* "is_last = iteration == max_iterations - 1"
IsLast(it, max) == it = max - 1

ToolChoice(it) == IF it = 0 THEN "required" ELSE "auto"

HasGatheredEvidence(memory_ids, model_ids) == memory_ids # {} \/ model_ids # {}

\* a guardrail that looks at the iteration only
MustGatherFirstAnyway(memory_ids, model_ids, it, max) == it < max - 1

\* a guardrail with the evidence test the wrong way round
MustGatherFirstInverted(memory_ids, model_ids, it, max) ==
    HasGatheredEvidence(memory_ids, model_ids) /\ it < max - 1

\* the guard of both guardrails: "not has_gathered_evidence and iteration < max_iterations - 1"
MustGatherFirst(memory_ids, model_ids, it, max) ==
    ~HasGatheredEvidence(memory_ids, model_ids) /\ it < max - 1

\* a tool list that offers learn in answer mode only
GetReflectToolsLearnInAnswerOnly(learn_enabled, mode) ==
    <<"list_mental_models", "get_mental_model", "recall">>
        \o (IF learn_enabled /\ mode = "answer" THEN <<"learn">> ELSE <<>>)
        \o <<"expand">>
        \o (IF mode = "observations" THEN <<"done_observations">> ELSE <<"done_answer">>)

\* a tool list that always holds learn
GetReflectToolsWithLearn(learn_enabled, mode) ==
    <<"list_mental_models", "get_mental_model", "recall", "learn", "expand">>
        \o (IF mode = "observations" THEN <<"done_observations">> ELSE <<"done_answer">>)

\* get_reflect_tools: the tools offered to the LLM, the done tool in the
\* shape of the output mode
GetReflectTools(learn_enabled, mode) ==
    <<"list_mental_models", "get_mental_model", "recall">>
        \o (IF learn_enabled THEN <<"learn">> ELSE <<>>)
        \o <<"expand">>
        \o (IF mode = "observations" THEN <<"done_observations">> ELSE <<"done_answer">>)

NoRequest == [kind |-> "none", tool_choice |-> "none", prompt |-> <<>>]
ToolsRequest(it, msgs) ==
    [kind |-> "tools", tool_choice |-> ToolChoice(it), prompt |-> msgs,
     tools |-> GetReflectTools(enable_learn, output_mode)]
\* build_final_prompt renders context_history, not the conversation
FinalRequest(history) == [kind |-> "final", tool_choice |-> "none", prompt |-> history]

\* one entry of the history of LLM calls
LlmCall(kind, choice, it) ==
    [kind |-> kind, tool_choice |-> choice, iteration |-> it, outcome |-> "pending",
     proposed |-> 0, done_args |-> NoDoneArgs]

\* number of non-completion calls in a response
Proposed(calls) == Cardinality({i \in 1..Len(calls) : calls[i].name # "done"})

\* the awaited call came back: how, with which tool calls, and the arguments
\* of the done call that was processed
Resolve(history, outcome, calls) ==
    [history EXCEPT ![Len(history)].outcome = outcome,
                    ![Len(history)].proposed = Proposed(calls),
                    ![Len(history)].done_args =
                        IF outcome = "done_accepted" THEN DoneCall(calls).args
                        ELSE NoDoneArgs]

NoOutcome == [exc |-> FALSE, output |-> NoPayload]

\* the session with the other output mode, before its loop
OtherMode(mode) == IF mode = "answer" THEN "observations" ELSE "answer"
TwinStart(mode) ==
    [mode |-> mode, pc |-> "loop", iteration |-> 0, memory_ids |-> {}, model_ids |-> {},
     tools_called |-> 0, created |-> <<>>, trace |-> <<>>, tool_choice |-> "none",
     offered |-> <<>>, running |-> <<>>, rejections |-> 0, result |-> NoResult]

\* a session as run_reflect_agent starts it, with or without a learn_fn
Start(learn_fn_given) ==
    /\ max_iterations \in 0..MaxIterations
    /\ output_mode \in {"answer", "observations"}
    /\ enable_learn = learn_fn_given
    /\ pc = "loop"
    /\ iteration = 0
    /\ messages = <<TextMessage("system"), TextMessage("user")>>
    /\ mental_models_created = <<>>
    /\ total_tools_called = 0
    /\ tool_trace = <<>>
    /\ llm_trace = <<>>
    /\ context_history = <<>>
    /\ available_memory_ids = {}
    /\ available_model_ids = {}
    /\ request = NoRequest
    /\ tasks = <<>>
    /\ completion_order = <<>>
    /\ outstanding = {}
    /\ result = NoResult
    /\ llm_calls = <<>>
    /\ surfaced_memory_ids = {}
    /\ surfaced_model_ids = {}
    /\ twin = TwinStart(OtherMode(output_mode))

\* no call of the dispatcher by itself is under way
DispatchIdle ==
    /\ tool_name = "none"
    /\ tool_args = {}
    /\ learn_fn = FALSE
    /\ dispatch = "idle"
    /\ tool_result = NoOutcome
    /\ invoked = "none"

\* no structural derivation is under way
StructuralIdle ==
    /\ existing_models = <<>>
    /\ llm_templates = <<>>
    /\ derive = "idle"
    /\ templates = <<>>
    /\ models_to_remove = <<>>

\* no consolidation is under way
ConsolidationIdle ==
    /\ candidates = <<>>
    /\ strict = FALSE
    /\ stored_observations = <<>>
    /\ new_observations = <<>>
    /\ stage = "idle"
    /\ runs = 0
    /\ after_first_run = <<>>
    /\ discarded = {}
    /\ compare_prompt = <<>>

\* no tags filter is being built
TagsIdle ==
    /\ tags = [none |-> TRUE, list |-> <<>>]
    /\ param_offset = 1
    /\ table_alias = ""
    /\ match = "any"
    /\ clause_result = <<>>
    /\ simple_result = <<>>

\* no configuration is being resolved
ConfigIdle ==
    /\ bank_config = <<>>
    /\ tenant_extension = FALSE
    /\ tenant_overrides = <<>>
    /\ config_call = <<>>
    /\ config_calls = 0
    /\ pristine = {}

FunctionsIdle == TagsIdle /\ ConfigIdle

Init == Start(TRUE) /\ DispatchIdle /\ StructuralIdle /\ ConsolidationIdle /\ FunctionsIdle

params == <<max_iterations, output_mode, enable_learn>>
tracking == <<mental_models_created, total_tools_called, tool_trace, context_history>>
registry == <<available_memory_ids, available_model_ids>>
surfaced == <<surfaced_memory_ids, surfaced_model_ids>>
gather == <<tasks, completion_order, outstanding>>

\* agent.py 118-156, 365-375: the head of the loop in the twin session
TwinHead(t, max, learn_enabled) ==
    IF t.pc # "loop" THEN t
    ELSE IF t.iteration >= max
         THEN [t EXCEPT !.pc = "returned",
                        !.result = PlainResult("fallback", TRUE, max, t.tools_called,
                                               t.created, t.trace)]
    ELSE IF IsLast(t.iteration, max)
         THEN [t EXCEPT !.pc = "await_final", !.tool_choice = "none"]
    ELSE [t EXCEPT !.pc = "await_tools", !.tool_choice = ToolChoice(t.iteration),
                   !.offered = GetReflectTools(learn_enabled, t.mode)]

\* agent.py 122-133: the last iteration offers no tools
IssueFinalCall ==
    /\ pc = "loop"
    /\ iteration < max_iterations
    /\ IsLast(iteration, max_iterations)
    /\ request' = FinalRequest(context_history)
    /\ llm_calls' = Append(llm_calls, LlmCall("final", "none", iteration))
    /\ pc' = "await_final"
    /\ completion_order' = <<>>
    /\ twin' = TwinHead(twin, max_iterations, enable_learn)
    /\ UNCHANGED <<apart, params, iteration, messages, tracking, llm_trace, registry, tasks,
                   outstanding, result, surfaced>>

\* agent.py 146-156: any other iteration calls the LLM with the tools
IssueToolCall ==
    /\ pc = "loop"
    /\ iteration < max_iterations
    /\ ~IsLast(iteration, max_iterations)
    /\ request' = ToolsRequest(iteration, messages)
    /\ llm_calls' = Append(llm_calls, LlmCall("tools", ToolChoice(iteration), iteration))
    /\ pc' = "await_tools"
    /\ completion_order' = <<>>
    /\ twin' = TwinHead(twin, max_iterations, enable_learn)
    /\ UNCHANGED <<apart, params, iteration, messages, tracking, llm_trace, registry, tasks,
                   outstanding, result, surfaced>>

\* agent.py 365-375: the loop ran out without returning
FallThrough ==
    /\ pc = "loop"
    /\ iteration >= max_iterations
    /\ result' = PlainResult("fallback", TRUE, max_iterations, total_tools_called,
                             mental_models_created, tool_trace)
    /\ pc' = "returned"
    /\ twin' = TwinHead(twin, max_iterations, enable_learn)
    /\ UNCHANGED <<apart, params, iteration, messages, tracking, llm_trace, registry, request,
                   gather, llm_calls, surfaced>>

\* a retry that stays in the iteration that failed
NextIterationSame(it) == it

\* the loop variable after "continue" or after the end of the loop body
NextIteration(it) == it + 1

TraceEntry(scope, it) == [scope |-> scope, n |-> it + 1]

\* agent.py 165-185 in the twin session: the tool-offering call raised
TwinLLMFails(t, max) ==
    IF t.pc # "await_tools" THEN t
    ELSE IF MustGatherFirst(t.memory_ids, t.model_ids, t.iteration, max)
         THEN [t EXCEPT !.pc = "loop", !.iteration = NextIteration(t.iteration),
                        !.tool_choice = "none"]
    ELSE [t EXCEPT !.pc = "await_final", !.tool_choice = "none"]

\* agent.py 198-210 in the twin session: the content is the answer
TwinText(t) ==
    IF t.pc # "await_tools" THEN t
    ELSE [t EXCEPT !.pc = "returned", !.tool_choice = "none",
                   !.result = PlainResult("text", FALSE, t.iteration + 1, t.tools_called,
                                          t.created, t.trace)]

\* agent.py 211-221 in the twin session: empty response
TwinEmpty(t) ==
    IF t.pc # "await_tools" THEN t
    ELSE [t EXCEPT !.pc = "await_final", !.tool_choice = "none"]

\* agent.py 234-277 in the twin session: the response holds a done call
TwinDone(t, calls, max) ==
    IF t.pc # "await_tools" THEN t
    ELSE IF MustGatherFirst(t.memory_ids, t.model_ids, t.iteration, max)
         THEN [t EXCEPT !.pc = "loop", !.iteration = NextIteration(t.iteration),
                        !.tool_choice = "none", !.rejections = t.rejections + 1]
    ELSE [t EXCEPT !.pc = "returned", !.tool_choice = "none",
                   !.result = ProcessDoneTool(DoneCall(calls), t.mode, t.memory_ids,
                                              t.model_ids, t.iteration + 1, t.tools_called,
                                              t.created, t.trace)]

\* agent.py 279-297 in the twin session: the other tools are started
TwinTools(t, calls) ==
    IF t.pc # "await_tools" THEN t
    ELSE [t EXCEPT !.pc = "exec", !.tool_choice = "none", !.running = OtherTools(calls)]

\* agent.py 134-144, 186-196, 222-232 in the twin session
TwinFinalReturns(t) ==
    IF t.pc # "await_final" THEN t
    ELSE [t EXCEPT !.pc = "returned",
                   !.result = PlainResult("final", TRUE, t.iteration + 1, t.tools_called,
                                          t.created, t.trace)]

\* agent.py 126, 178, 214 in the twin session
TwinFinalFails(t) ==
    IF t.pc # "await_final" THEN t ELSE [t EXCEPT !.pc = "raised"]

\* agent.py 165-173: the tool-offering call raised and nothing was gathered yet
LLMFailsRetry ==
    /\ pc = "await_tools"
    /\ MustGatherFirst(available_memory_ids, available_model_ids, iteration, max_iterations)
    /\ llm_trace' = Append(llm_trace, TraceEntry("agent_err", iteration))
    /\ llm_calls' = Resolve(llm_calls, "failed", <<>>)
    /\ twin' = TwinLLMFails(twin, max_iterations)
    /\ iteration' = NextIteration(iteration)
    /\ request' = NoRequest
    /\ pc' = "loop"
    /\ UNCHANGED <<apart, params, messages, tracking, registry, gather, result, surfaced>>

\* agent.py 165-185: the tool-offering call raised, fall back to the final call
LLMFailsForceFinal ==
    /\ pc = "await_tools"
    /\ ~MustGatherFirst(available_memory_ids, available_model_ids, iteration, max_iterations)
    /\ llm_trace' = Append(llm_trace, TraceEntry("agent_err", iteration))
    /\ request' = FinalRequest(context_history)
    /\ llm_calls' = Append(Resolve(llm_calls, "failed", <<>>), LlmCall("final", "none", iteration))
    /\ twin' = TwinLLMFails(twin, max_iterations)
    /\ pc' = "await_final"
    /\ UNCHANGED <<apart, params, iteration, messages, tracking, registry, gather, result, surfaced>>

\* agent.py 198-210: no tool calls, the content is the answer.  A provider
\* asked with tool_choice "required" answers with tool calls.
LLMReturnsText ==
    /\ pc = "await_tools"
    /\ request.tool_choice # "required"
    /\ llm_trace' = Append(llm_trace, TraceEntry("agent", iteration))
    /\ llm_calls' = Resolve(llm_calls, "text", <<>>)
    /\ twin' = TwinText(twin)
    /\ result' = PlainResult("text", FALSE, iteration + 1, total_tools_called,
                             mental_models_created, tool_trace)
    /\ request' = NoRequest
    /\ pc' = "returned"
    /\ UNCHANGED <<apart, params, iteration, messages, tracking, registry, gather, surfaced>>

\* an empty response answered by going on to the next iteration
LLMReturnsEmptyContinues ==
    /\ pc = "await_tools"
    /\ request.tool_choice # "required"
    /\ llm_trace' = Append(llm_trace, TraceEntry("agent", iteration))
    /\ llm_calls' = Resolve(llm_calls, "empty", <<>>)
    /\ twin' = TwinEmpty(twin)
    /\ iteration' = NextIteration(iteration)
    /\ request' = NoRequest
    /\ pc' = "loop"
    /\ UNCHANGED <<apart, params, messages, tracking, registry, gather, result, surfaced>>

\* agent.py 211-221: neither tool calls nor content, force the final call
LLMReturnsEmpty ==
    /\ pc = "await_tools"
    /\ request.tool_choice # "required"
    /\ llm_trace' = Append(llm_trace, TraceEntry("agent", iteration))
    /\ request' = FinalRequest(context_history)
    /\ llm_calls' = Append(Resolve(llm_calls, "empty", <<>>), LlmCall("final", "none", iteration))
    /\ twin' = TwinEmpty(twin)
    /\ pc' = "await_final"
    /\ UNCHANGED <<apart, params, iteration, messages, tracking, registry, gather, result, surfaced>>

\* a rejection that leaves the done call without its tool result
RejectionMessagesWithoutResult(done_call) == <<AssistantMessage(<<done_call>>)>>

\* agent.py 245-261: the done call alone as assistant message, and the error
\* as its tool result
RejectionMessages(done_call) ==
    <<AssistantMessage(<<done_call>>),
      ToolMessage(done_call, ErrorPayload("gather evidence first"))>>

\* agent.py 234-262: a done call before any evidence is answered with an error
LLMReturnsDoneRejected ==
    /\ pc = "await_tools"
    /\ MustGatherFirst(available_memory_ids, available_model_ids, iteration, max_iterations)
    /\ \E calls \in DoneResponses(iteration) :
        /\ messages' = messages \o RejectionMessages(DoneCall(calls))
        /\ llm_calls' = Resolve(llm_calls, "done_rejected", calls)
        /\ twin' = TwinDone(twin, calls, max_iterations)
    /\ llm_trace' = Append(llm_trace, TraceEntry("agent", iteration))
    /\ iteration' = NextIteration(iteration)
    /\ request' = NoRequest
    /\ pc' = "loop"
    /\ UNCHANGED <<apart, params, tracking, registry, gather, result, surfaced>>

\* agent.py 234-277: a done call is processed and ends the session
LLMReturnsDoneAccepted ==
    /\ pc = "await_tools"
    /\ ~MustGatherFirst(available_memory_ids, available_model_ids, iteration, max_iterations)
    /\ \E calls \in DoneResponses(iteration) :
        /\ result' = ProcessDoneTool(DoneCall(calls), output_mode, available_memory_ids,
                                     available_model_ids, iteration + 1, total_tools_called,
                                     mental_models_created, tool_trace)
        /\ llm_calls' = Resolve(llm_calls, "done_accepted", calls)
        /\ twin' = TwinDone(twin, calls, max_iterations)
    /\ llm_trace' = Append(llm_trace, TraceEntry("agent", iteration))
    /\ request' = NoRequest
    /\ pc' = "returned"
    /\ UNCHANGED <<apart, params, iteration, messages, tracking, registry, gather, surfaced>>

\* agent.py 279-297: the other tools are announced and started together
LLMReturnsTools ==
    /\ pc = "await_tools"
    /\ \E calls \in ToolResponses(iteration) :
        /\ total_tools_called + Len(calls) <= MaxToolCalls
        /\ messages' = Append(messages, AssistantMessage(OtherTools(calls)))
        /\ tasks' = [i \in 1..Len(OtherTools(calls)) |->
                        [call |-> OtherTools(calls)[i], status |-> "running",
                         outcome |-> NoOutcome]]
        /\ outstanding' = outstanding \cup {OtherTools(calls)[i].id : i \in 1..Len(OtherTools(calls))}
        /\ llm_calls' = Resolve(llm_calls, "tools", calls)
        /\ twin' = TwinTools(twin, calls)
    /\ completion_order' = <<>>
    /\ llm_trace' = Append(llm_trace, TraceEntry("agent", iteration))
    /\ request' = NoRequest
    /\ pc' = "exec"
    /\ UNCHANGED <<apart, params, iteration, tracking, registry, result, surfaced>>

\* ------------------------------------------------------- the gather round
\* ids a tool output shows to the model, whatever tool produced it
ShownMemoryIds(r) ==
    IF ~r.exc /\ r.output.kind \in {"memories", "expanded"} THEN r.output.ids ELSE {}
ShownModelIds(r) ==
    IF ~r.exc /\ r.output.kind \in {"models", "model", "learned"} THEN r.output.ids ELSE {}

\* agent.py 472-493: one of the running tool tasks finishes, in any order
ToolCompletes ==
    /\ pc = "exec"
    /\ \E i \in 1..Len(tasks) :
        /\ tasks[i].status = "running"
        /\ \E r \in ExecuteTool(tasks[i].call, enable_learn) :
            /\ tasks' = [tasks EXCEPT ![i].status = "finished", ![i].outcome = r]
            /\ surfaced_memory_ids' = surfaced_memory_ids \cup ShownMemoryIds(r)
            /\ surfaced_model_ids' = surfaced_model_ids \cup ShownModelIds(r)
        /\ completion_order' = Append(completion_order, i)
        /\ outstanding' = outstanding \ {tasks[i].call.id}
    /\ UNCHANGED <<apart, params, pc, iteration, messages, tracking, llm_trace, registry, request,
                   result, llm_calls, twin>>

\* a wait that ends as soon as one of the tasks has raised
GatherDoneAtFirstException(ts) ==
    \/ \A i \in 1..Len(ts) : ts[i].status = "finished"
    \/ \E i \in 1..Len(ts) : ts[i].status = "finished" /\ ts[i].outcome.exc

\* "await asyncio.gather(*tool_tasks, return_exceptions=True)" resumes the
\* loop when every task has finished
GatherDone(ts) == \A i \in 1..Len(ts) : ts[i].status = "finished"

\* a registry that is assigned the ids of the latest result
RegistryReplace(ids, found) == found

\* "available_memory_ids.add(...)", "available_model_ids.add(...)"
RegistryAdd(ids, found) == ids \cup found

\* asyncio.gather without return_exceptions: the first exception is raised
GatherResultsPropagating(ts) ==
    [raises |-> \E i \in 1..Len(ts) : ts[i].outcome.exc,
     results |-> [i \in 1..Len(ts) |-> ts[i].outcome]]

\* asyncio.gather(*tool_tasks, return_exceptions=True): the results in the
\* order of the tasks, a raised exception being one of the results
GatherResults(ts) ==
    [raises |-> FALSE, results |-> [i \in 1..Len(ts) |-> ts[i].outcome]]

\* results taken as the tasks complete (asyncio.as_completed)
ProcessingOrderAsCompleted(n, completed) == completed

\* "for tc, result_data in zip(other_tools, tool_results)": the order in which
\* the results are processed, as indexes into other_tools
ProcessingOrder(n, completed) == [i \in 1..n |-> i]

\* created models listed latest first
RECURSIVE CreatedInOrderLatestFirst(_, _, _)
CreatedInOrderLatestFirst(calls, results, order) ==
    IF order = <<>> THEN <<>>
    ELSE CreatedInOrderLatestFirst(calls, results, Tail(order))
             \o CreatedBy(calls[Head(order)], results[Head(order)])

RECURSIVE CreatedInOrder(_, _, _)
CreatedInOrder(calls, results, order) ==
    IF order = <<>> THEN <<>>
    ELSE CreatedBy(calls[Head(order)], results[Head(order)])
             \o CreatedInOrder(calls, results, Tail(order))

TraceRecord(tc, output) == [tool |-> tc.name, id |-> tc.id, output |-> output]

\* agent.py 297-363 in the twin session: the results of its own calls
TwinFanIn(t, outcomes, completed) ==
    IF t.pc # "exec" \/ Len(outcomes) # Len(t.running) THEN t
    ELSE LET n == Len(t.running)
             ts == [i \in 1..n |-> [call |-> t.running[i], status |-> "finished",
                                     outcome |-> outcomes[i]]]
             g == GatherResults(ts)
             order == ProcessingOrder(n, completed)
             call(k) == t.running[order[k]]
             res(k) == g.results[order[k]]
         IN  IF g.raises THEN [t EXCEPT !.pc = "raised", !.running = <<>>]
             ELSE [t EXCEPT
                     !.tools_called = t.tools_called + n,
                     !.created = t.created \o CreatedInOrder(t.running, g.results, order),
                     !.memory_ids = RegistryAdd(t.memory_ids,
                         UNION {MemoryIdsFrom(call(k), res(k)) : k \in 1..n}),
                     !.model_ids = RegistryAdd(t.model_ids,
                         UNION {ModelIdsFrom(call(k), res(k)) : k \in 1..n}),
                     !.trace = t.trace \o
                         [k \in 1..n |-> TraceRecord(call(k), OutputOf(res(k)))],
                     !.iteration = NextIteration(t.iteration),
                     !.running = <<>>,
                     !.pc = "loop"]

\* a counter of rounds instead of calls
ToolsCalledAfterOneMore(count, other_tools) == count + 1

\* agent.py 301: total_tools_called += len(other_tools)
ToolsCalledAfter(count, other_tools) == count + Len(other_tools)

\* agent.py 297-363: gather returned, every result is processed in turn
FanIn ==
    /\ pc = "exec"
    /\ GatherDone(tasks)
    /\ LET n == Len(tasks)
           g == GatherResults(tasks)
           order == ProcessingOrder(n, completion_order)
           call(k) == tasks[order[k]].call
           res(k) == g.results[order[k]]
       IN  IF g.raises
           THEN /\ pc' = "raised"
                /\ UNCHANGED <<iteration, messages, tracking, registry>>
           ELSE /\ total_tools_called' = ToolsCalledAfter(total_tools_called, tasks)
                /\ mental_models_created' = mental_models_created \o
                       CreatedInOrder([i \in 1..n |-> tasks[i].call], g.results, order)
                /\ available_memory_ids' = RegistryAdd(available_memory_ids,
                       UNION {MemoryIdsFrom(call(k), res(k)) : k \in 1..n})
                /\ available_model_ids' = RegistryAdd(available_model_ids,
                       UNION {ModelIdsFrom(call(k), res(k)) : k \in 1..n})
                /\ messages' = messages \o
                       [k \in 1..n |-> ToolMessage(call(k), OutputOf(res(k)))]
                /\ tool_trace' = tool_trace \o
                       [k \in 1..n |-> TraceRecord(call(k), OutputOf(res(k)))]
                /\ context_history' = context_history \o
                       [k \in 1..n |-> TraceRecord(call(k), OutputOf(res(k)))]
                /\ iteration' = NextIteration(iteration)
                /\ pc' = "loop"
    /\ tasks' = <<>>
    /\ twin' = TwinFanIn(twin, [i \in 1..Len(tasks) |-> tasks[i].outcome], completion_order)
    /\ UNCHANGED <<apart, params, llm_trace, request, result, llm_calls, surfaced, completion_order,
                   outstanding>>

\* agent.py 134-144, 186-196, 222-232: the final call answered
FinalCallReturns ==
    /\ pc = "await_final"
    /\ llm_trace' = Append(llm_trace, [scope |-> "final", n |-> 0])
    /\ llm_calls' = Resolve(llm_calls, "final_ok", <<>>)
    /\ twin' = TwinFinalReturns(twin)
    /\ result' = PlainResult("final", TRUE, iteration + 1, total_tools_called,
                             mental_models_created, tool_trace)
    /\ request' = NoRequest
    /\ pc' = "returned"
    /\ UNCHANGED <<apart, params, iteration, messages, tracking, registry, gather, surfaced>>

\* agent.py 126, 178, 214: the final call is not inside any try block
FinalCallFails ==
    /\ pc = "await_final"
    /\ llm_calls' = Resolve(llm_calls, "failed", <<>>)
    /\ twin' = TwinFinalFails(twin)
    /\ request' = NoRequest
    /\ pc' = "raised"
    /\ UNCHANGED <<apart, params, iteration, messages, tracking, llm_trace, registry, gather,
                   result, surfaced>>

Next ==
    \/ IssueFinalCall
    \/ IssueToolCall
    \/ FallThrough
    \/ LLMFailsRetry
    \/ LLMFailsForceFinal
    \/ LLMReturnsText
    \/ LLMReturnsEmpty
    \/ LLMReturnsDoneRejected
    \/ LLMReturnsDoneAccepted
    \/ LLMReturnsTools
    \/ ToolCompletes
    \/ FanIn
    \/ FinalCallReturns
    \/ FinalCallFails

Spec == Init /\ [][Next]_vars

\* every awaited call comes back and the coroutine is resumed
FairSpec == Spec /\ WF_vars(Next)

\* agent.py 32, 64: sessions started with and without a learn collaborator
SessionInit ==
    /\ Start(TRUE) \/ Start(FALSE)
    /\ DispatchIdle
    /\ StructuralIdle
    /\ ConsolidationIdle
    /\ FunctionsIdle

SessionSpec == SessionInit /\ [][Next]_vars

\* ------------------------------------------------- _execute_tool by itself
\* no session of the agent is under way
ReflectIdle == Start(TRUE) /\ max_iterations = 0 /\ output_mode = "answer"

\* argument names of the tool schemas
ArgNames == {"model_id", "query", "max_tokens", "name", "description", "memory_ids", "depth"}

\* the "required" lists of the tool schemas (tools_schema.py)
Required(name) ==
    CASE name = "get_mental_model" -> {"model_id"}
      [] name = "recall" -> {"query"}
      [] name = "learn" -> {"name", "description"}
      [] name = "expand" -> {"memory_ids", "depth"}
      [] OTHER -> {}

\* the arguments _execute_tool tests before it awaits a collaborator
ArgsOk(name, given) ==
    CASE name = "get_mental_model" -> "model_id" \in given
      [] name = "recall" -> "query" \in given
      [] name = "learn" -> "name" \in given /\ "description" \in given
      [] name = "expand" -> "memory_ids" \in given
      [] OTHER -> TRUE

\* the collaborator _execute_tool awaits for a call, "none" when it returns
\* an error payload of its own
Collaborator(tc, learn_enabled) ==
    IF tc.name = "list_mental_models" THEN "lookup_fn"
    ELSE IF tc.name = "get_mental_model" THEN (IF tc.args_ok THEN "lookup_fn" ELSE "none")
    ELSE IF tc.name = "recall" THEN (IF tc.args_ok THEN "recall_fn" ELSE "none")
    ELSE IF tc.name = "learn" THEN (IF learn_enabled /\ tc.args_ok THEN "learn_fn" ELSE "none")
    ELSE IF tc.name = "expand" THEN (IF tc.args_ok THEN "expand_fn" ELSE "none")
    ELSE "none"

\* any tool name, any set of arguments, with and without a learn collaborator
DispatchInit ==
    /\ ReflectIdle
    /\ FunctionsIdle
    /\ StructuralIdle
    /\ ConsolidationIdle
    /\ tool_name \in ToolNames
    /\ tool_args \in SUBSET ArgNames
    /\ learn_fn \in BOOLEAN
    /\ dispatch = "called"
    /\ tool_result = NoOutcome
    /\ invoked = "none"

\* agent.py 514-556: the call runs to its end
Dispatch ==
    /\ dispatch = "called"
    /\ LET tc == ToolCallRec(0, tool_name, ArgsOk(tool_name, tool_args), NoDoneArgs)
       IN  /\ invoked' = Collaborator(tc, learn_fn)
           /\ \E r \in ExecuteTool(tc, learn_fn) :
                /\ tool_result' = r
                /\ dispatch' = IF r.exc THEN "raised" ELSE "returned"
    /\ UNCHANGED <<reflect_vars, functions_vars, structural_vars, consolidation_vars, tool_name, tool_args,
                   learn_fn>>

DispatchNext == Dispatch

DispatchSpec == DispatchInit /\ [][DispatchNext]_vars

\* ------------------------------------------------ derive_structural_models
\* the prompt asks for "0-3 structural models MAXIMUM"
TemplateLimit == 3

\* names of structural models, and what
\* name.lower().replace(" ", "-").replace("_", "-") makes of each
TemplateNames == {"Team", "Projects", "Key_Systems Map"}

\* the characters of a name
Chars(name) ==
    CASE name = "Team" -> <<"T", "e", "a", "m">>
      [] name = "Projects" -> <<"P", "r", "o", "j", "e", "c", "t", "s">>
      [] name = "Key_Systems Map" ->
             <<"K", "e", "y", "_", "S", "y", "s", "t", "e", "m", "s", " ", "M", "a", "p">>

\* str.lower() on one character
LowerChar(c) ==
    CASE c = "K" -> "k"
      [] c = "M" -> "m"
      [] c = "P" -> "p"
      [] c = "S" -> "s"
      [] c = "T" -> "t"
      [] OTHER -> c

Lower(chars) == [i \in 1..Len(chars) |-> LowerChar(chars[i])]

\* str.replace(old, new) for one-character old and new
Replace(chars, old, new) == [i \in 1..Len(chars) |-> IF chars[i] = old THEN new ELSE chars[i]]

RECURSIVE Text(_)
\* the string made of the characters
Text(chars) == IF chars = <<>> THEN "" ELSE Head(chars) \o Text(Tail(chars))

\* an id that keeps the underscores of the name
SlugSpacesOnly(name) == Text(Replace(Lower(Chars(name)), " ", "-"))

\* structural.py 145
Slug(name) == Text(Replace(Replace(Lower(Chars(name)), " ", "-"), "_", "-"))

\* ids the existing models of a bank may have
ExistingIds == {"team", "e2", "e3"}

\* the existing models handed in: ids are unique in a bank, names need not be
ExistingModels ==
    {ms \in SeqsUpTo([id : ExistingIds, name : TemplateNames], MaxExisting) :
        \A i, j \in 1..Len(ms) : i # j => ms[i].id # ms[j].id}

\* templates the LLM may answer with: without an id, or with one of its own
TemplateSamples ==
    {[id |-> "", name |-> n] : n \in TemplateNames} \cup {[id |-> "t9", name |-> "Team"]}

\* "if not template.id: template.id = ..."
WithStableIds(ts) ==
    [i \in 1..Len(ts) |-> IF ts[i].id = "" THEN [ts[i] EXCEPT !.id = Slug(ts[i].name)]
                           ELSE ts[i]]

RECURSIVE IdsOf(_)
IdsOf(ms) == IF ms = <<>> THEN <<>> ELSE <<Head(ms).id>> \o IdsOf(Tail(ms))

\* a diff that compares the ids of the models with the ids of the templates
ModelsToRemoveById(existing, ts) ==
    IdsOf(SelectSeq(existing, LAMBDA m : m.id \notin {ts[i].id : i \in 1..Len(ts)}))

\* structural.py 147-154: the existing models whose name no template has
ModelsToRemove(existing, ts) ==
    LET returned_names == {ts[i].name : i \in 1..Len(ts)}
    IN  IdsOf(SelectSeq(existing, LAMBDA m : m.name \notin returned_names))

StructuralInit ==
    /\ ReflectIdle
    /\ FunctionsIdle
    /\ DispatchIdle
    /\ ConsolidationIdle
    /\ existing_models \in ExistingModels
    /\ llm_templates = <<>>
    /\ derive = "called"
    /\ templates = <<>>
    /\ models_to_remove = <<>>

\* structural.py 129-159: the LLM answered with a list of templates
DeriveReturns ==
    /\ derive = "called"
    /\ \E answer \in SeqsUpTo(TemplateSamples, MaxTemplates) :
        /\ llm_templates' = answer
        /\ templates' = WithStableIds(answer)
        /\ models_to_remove' = ModelsToRemove(existing_models, WithStableIds(answer))
    /\ derive' = "returned"
    /\ UNCHANGED <<reflect_vars, functions_vars, dispatch_vars, consolidation_vars, existing_models>>

\* structural.py 129: the LLM call raised
DeriveFails ==
    /\ derive = "called"
    /\ derive' = "raised"
    /\ UNCHANGED <<reflect_vars, functions_vars, dispatch_vars, consolidation_vars, existing_models,
                   llm_templates, templates, models_to_remove>>

StructuralNext == DeriveReturns \/ DeriveFails

StructuralSpec == StructuralInit /\ [][StructuralNext]_vars

\* ------------------------------------- consolidation: Validate and Compare
\* the observations of the topic, by content
ObservationContents == {"A", "B"}

\* evidence entries: a quote of a fact
Quote(memory_id, quote) == [memory_id |-> memory_id, quote |-> quote]
\* quotes the facts of the batch hold, and quotes persisted before
FactQuotes == {Quote("m1", "q1"), Quote("m2", "q2")}
StoredQuotes == {Quote("m1", "q1"), Quote("m3", "q3")}

\* an observation persisted with more evidence than the Compare prompt lists
LongEvidenceIds == <<"m3", "m4", "m5", "m6", "m7", "m8">>
LongEvidence == [i \in 1..Len(LongEvidenceIds) |-> Quote(LongEvidenceIds[i], "q3")]

\* lists of entries without a repeated entry
EvidenceLists(S) ==
    {ev \in SeqsUpTo(S, MaxEvidence) : \A i, j \in 1..Len(ev) : i # j => ev[i] # ev[j]}

\* a Validate that discards for contradiction and sparsity only
DiscardedUnlessUnsupported(cands, sparse_discarded) ==
    {c \in ObservationContents :
        \/ cands[c].contradicted
        \/ sparse_discarded /\ Len(cands[c].supporting) = 1}

\* Validate discards a candidate that is contradicted, has no supporting
\* quote, or has sparse evidence when sparse evidence is not accepted
Discarded(cands, sparse_discarded) ==
    {c \in ObservationContents :
        \/ cands[c].contradicted
        \/ cands[c].supporting = <<>>
        \/ sparse_discarded /\ Len(cands[c].supporting) < 2}

\* Validate: a candidate that is not discarded is accepted with the quotes
\* of its supporting facts
Validate(cands, sparse_discarded) ==
    [c \in ObservationContents |->
        IF c \in Discarded(cands, sparse_discarded) THEN <<>>
        ELSE cands[c].supporting]

\* prompts.py 677: evidence[:5], the entries of an existing observation
\* that the Compare prompt lists
ShownEvidence == 5

FirstN(list, n) == SubSeq(list, 1, IF Len(list) < n THEN Len(list) ELSE n)

\* prompts.py 660-703: the existing observations with the number of their
\* evidence entries, the first five of them and the number of the rest; the
\* new observations with every evidence entry
BuildComparePhasePrompt(existing_observations, new_obs) ==
    [existing |-> [c \in ObservationContents |->
                      [items |-> Len(existing_observations[c]),
                       evidence |-> FirstN(existing_observations[c], ShownEvidence),
                       more |-> IF Len(existing_observations[c]) > ShownEvidence
                                THEN Len(existing_observations[c]) - ShownEvidence
                                ELSE 0]],
     new |-> new_obs]

\* an update that replaces nothing and tests nothing
MergeEvidenceAppending(old, new) == old \o new

\* an updated observation has the union of both evidence sets
MergeEvidence(old, new) == AppendNew(old, new)

\* Compare: a persisted observation is removed when the new facts contradict
\* it, kept when nothing new was accepted for it, updated otherwise; an
\* accepted observation that was not persisted is added
Compare(existing, new, cands) ==
    [c \in ObservationContents |->
        IF cands[c].contradicted THEN <<>>
        ELSE IF new[c] = <<>> THEN existing[c]
        ELSE MergeEvidence(existing[c], new[c])]

ConsolidationInit ==
    /\ ReflectIdle
    /\ FunctionsIdle
    /\ DispatchIdle
    /\ StructuralIdle
    /\ candidates \in [ObservationContents ->
                            [supporting : EvidenceLists(FactQuotes), contradicted : BOOLEAN]]
    /\ strict \in BOOLEAN
    /\ stored_observations \in
           [ObservationContents -> EvidenceLists(StoredQuotes) \cup {LongEvidence}]
    /\ new_observations = [c \in ObservationContents |-> <<>>]
    /\ stage = "validate"
    /\ runs = 0
    /\ after_first_run = [c \in ObservationContents |-> <<>>]
    /\ discarded = {}
    /\ compare_prompt = <<>>

ValidatePhase ==
    /\ stage = "validate"
    /\ new_observations' = Validate(candidates, strict)
    /\ discarded' = Discarded(candidates, strict)
    /\ stage' = "compare"
    /\ UNCHANGED <<reflect_vars, functions_vars, dispatch_vars, structural_vars, candidates, strict,
                   stored_observations, runs, after_first_run, compare_prompt>>

\* the same facts are consolidated a second time against what the first
\* run persisted
ComparePhase ==
    /\ stage = "compare"
    /\ compare_prompt' = BuildComparePhasePrompt(stored_observations, new_observations)
    /\ stored_observations' = Compare(stored_observations, new_observations, candidates)
    /\ runs' = runs + 1
    /\ after_first_run' = IF runs = 0 THEN stored_observations' ELSE after_first_run
    /\ stage' = IF runs = 0 THEN "validate" ELSE "done"
    /\ UNCHANGED <<reflect_vars, functions_vars, dispatch_vars, structural_vars, candidates, strict,
                   new_observations, discarded>>

ConsolidationNext == ValidatePhase \/ ComparePhase

ConsolidationSpec == ConsolidationInit /\ [][ConsolidationNext]_vars

\* ------------------------------------------- search/tags.py: tags filter
\* request tags, table aliases and match modes (TagsMatch) of the callers
TagNames == {"user_a", "user_b"}
TableAliases == {"", "mu."}
TagsMatch == {"any", "all"}

\* tags.py 49, 80: not tags
NoTags(t) == t.none \/ t.list = <<>>

\* tags.py 52, 83
Column(alias) == IF alias # "" THEN alias \o "tags" ELSE "tags"

\* tags.py 54, 84
Operator(m) == IF m = "any" THEN "&&" ELSE "@>"

\* a builder that filters by an empty list
BuildTagsWhereClauseUnlessNone(t, n, alias, m) ==
    IF t.none THEN <<"", <<>>, n>>
    ELSE <<"AND " \o Column(alias) \o " " \o Operator(m) \o " $" \o ToString(n),
           <<t.list>>, n + 1>>

\* tags.py 15-56
BuildTagsWhereClause(t, n, alias, m) ==
    IF NoTags(t) THEN <<"", <<>>, n>>
    ELSE <<"AND " \o Column(alias) \o " " \o Operator(m) \o " $" \o ToString(n),
           <<t.list>>, n + 1>>

\* a simple builder that knows the overlap operator only
BuildTagsWhereClauseSimpleOverlap(t, n, alias, m) ==
    IF NoTags(t) THEN ""
    ELSE "AND " \o Column(alias) \o " && $" \o ToString(n)

\* tags.py 59-85
BuildTagsWhereClauseSimple(t, n, alias, m) ==
    IF NoTags(t) THEN ""
    ELSE "AND " \o Column(alias) \o " " \o Operator(m) \o " $" \o ToString(n)

TagsInit ==
    /\ ReflectIdle
    /\ DispatchIdle
    /\ StructuralIdle
    /\ ConsolidationIdle
    /\ ConfigIdle
    /\ tags \in [none : {TRUE}, list : {<<>>}]
                 \cup [none : {FALSE}, list : SeqsUpTo(TagNames, MaxTags)]
    /\ param_offset \in 1..MaxParam
    /\ table_alias \in TableAliases
    /\ match \in TagsMatch
    /\ clause_result = <<>>
    /\ simple_result = <<>>

\* build_tags_where_clause is called and returns
CallBuildTagsWhereClause ==
    /\ clause_result = <<>>
    /\ clause_result' = BuildTagsWhereClause(tags, param_offset, table_alias, match)
    /\ UNCHANGED <<reflect_vars, dispatch_vars, structural_vars, consolidation_vars,
                   config_vars, tags, param_offset, table_alias, match, simple_result>>

\* build_tags_where_clause_simple is called and returns
CallBuildTagsWhereClauseSimple ==
    /\ simple_result = <<>>
    /\ simple_result' = <<BuildTagsWhereClauseSimple(tags, param_offset, table_alias, match)>>
    /\ UNCHANGED <<reflect_vars, dispatch_vars, structural_vars, consolidation_vars,
                   config_vars, tags, param_offset, table_alias, match, clause_result>>

TagsNext == CallBuildTagsWhereClause \/ CallBuildTagsWhereClauseSimple

TagsSpec == TagsInit /\ [][TagsNext]_vars

\* ------------------------------------------ config_resolver.py: ConfigResolver
Banks == {"b1", "b2"}

\* HindsightConfig.get_hierarchical_fields(), get_static_fields()
HierarchicalFields == {"llm_provider", "retain_mission"}
StaticFields == {"database_url"}
\* a key in env var format, and a key that names no field
EnvKey == "HINDSIGHT_API_LLM_PROVIDER"
Keys == HierarchicalFields \cup StaticFields \cup {EnvKey, "bogus"}

\* a dict over Keys; Absent marks a key the dict does not hold
Absent == "absent"
EmptyDict == [k \in Keys |-> Absent]
Dict(pairs) == [k \in Keys |-> IF k \in DOMAIN pairs THEN pairs[k] ELSE Absent]
KeysOf(d) == {k \in Keys : d[k] # Absent}

\* asdict(self._global_config): every field, from the environment
GlobalConfig ==
    [k \in Keys |-> IF k \in HierarchicalFields \cup StaticFields THEN "global" ELSE Absent]

\* normalize_config_dict: a key in env var format becomes the field name
FieldOf(k) == IF k = EnvKey THEN "llm_provider" ELSE k
NormalizeConfigDict(d) ==
    [f \in Keys |->
        IF \E k \in KeysOf(d) : FieldOf(k) = f
        THEN d[CHOOSE k \in KeysOf(d) : FieldOf(k) = f]
        ELSE Absent]

\* {k: v for k, v in normalized.items() if k in self._hierarchical_fields}
OnlyHierarchical(d) == [k \in Keys |-> IF k \in HierarchicalFields THEN d[k] ELSE Absent]

\* dict.update, and the || of JSONB: the keys of over replace those of base
DictUpdate(base, over) == [k \in Keys |-> IF over[k] # Absent THEN over[k] ELSE base[k]]

\* config_resolver.py 64-76: the tenant layer, skipped without an extension,
\* without a context, and when get_tenant_config raises
TenantLayer(extension, context, overrides, raises) ==
    IF extension /\ context /\ ~raises
    THEN OnlyHierarchical(NormalizeConfigDict(overrides))
    ELSE EmptyDict

\* a load that hands back the row whether or not the query raised
LoadBankConfigDespiteFailure(config_data, raises) ==
    OnlyHierarchical(NormalizeConfigDict(config_data))

\* config_resolver.py 86-120: _load_bank_config, {} when the query raises
LoadBankConfig(config_data, raises) ==
    IF raises THEN EmptyDict ELSE OnlyHierarchical(NormalizeConfigDict(config_data))

\* a resolution in which the tenant has the last word
ResolveLayersTenantLast(global, tenant, bank) == DictUpdate(DictUpdate(global, bank), tenant)

\* config_resolver.py 61, 71, 81: global, then tenant, then bank
ResolveLayers(global, tenant, bank) == DictUpdate(DictUpdate(global, tenant), bank)

\* a validation that knows the static fields only
InvalidFieldsStaticOnly(normalized_updates) == KeysOf(normalized_updates) \cap StaticFields

\* config_resolver.py 140
InvalidFields(normalized_updates) == KeysOf(normalized_updates) \ HierarchicalFields

\* a reset without its WHERE clause
ResetEveryConfig(rows, bank_id) == [b \in Banks |-> EmptyDict]

\* config_resolver.py 180-188: SET config = '{}' WHERE bank_id = $1
ResetConfig(rows, bank_id) == [rows EXCEPT ![bank_id] = EmptyDict]

\* an update that puts the new overrides in the place of the stored ones
ReplaceConfig(rows, bank_id, normalized_updates) ==
    [rows EXCEPT ![bank_id] = normalized_updates]

\* config_resolver.py 159-168: SET config = config || $1 WHERE bank_id = $2
MergeConfig(rows, bank_id, normalized_updates) ==
    [rows EXCEPT ![bank_id] = DictUpdate(@, normalized_updates)]

\* what callers pass as updates, what a tenant extension returns, and rows
\* of the banks table written before any call
UpdateSamples ==
    {Dict([llm_provider |-> "v1"]),
     Dict([HINDSIGHT_API_LLM_PROVIDER |-> "v2"]),
     Dict([retain_mission |-> "v1", llm_provider |-> "v2"]),
     Dict([llm_provider |-> "v1", database_url |-> "v1"]),
     Dict([retain_mission |-> "v2", bogus |-> "v1"])}
TenantSamples ==
    {EmptyDict,
     Dict([llm_provider |-> "t1", database_url |-> "t1"]),
     Dict([HINDSIGHT_API_LLM_PROVIDER |-> "t2", retain_mission |-> "t1"])}
StoredRows == {EmptyDict, Dict([retain_mission |-> "v1", database_url |-> "v1"])}

NoConfigCall ==
    [op |-> "none", bank |-> "b1", context |-> FALSE, updates |-> EmptyDict,
     outcome |-> "none", result |-> EmptyDict, tenant_loaded |-> FALSE,
     bank_loaded |-> FALSE, before |-> <<>>]

ConfigInit ==
    /\ ReflectIdle
    /\ DispatchIdle
    /\ StructuralIdle
    /\ ConsolidationIdle
    /\ TagsIdle
    /\ bank_config \in [Banks -> StoredRows]
    /\ tenant_extension \in BOOLEAN
    /\ tenant_overrides \in TenantSamples
    /\ config_call = NoConfigCall
    /\ config_calls = 0
    /\ pristine = {}

config_apart == <<reflect_vars, dispatch_vars, structural_vars, consolidation_vars, tags_vars,
                  tenant_extension, tenant_overrides>>

\* config_resolver.py 41-84: get_bank_config
GetBankConfig ==
    /\ config_calls < MaxConfigCalls
    /\ \E bank_id \in Banks, context, tenant_raises, load_raises \in BOOLEAN :
        /\ tenant_raises => (tenant_extension /\ context)
        /\ config_call' =
              [op |-> "get", bank |-> bank_id, context |-> context, updates |-> EmptyDict,
               outcome |-> "returned",
               result |-> ResolveLayers(GlobalConfig,
                             TenantLayer(tenant_extension, context, tenant_overrides,
                                         tenant_raises),
                             LoadBankConfig(bank_config[bank_id], load_raises)),
               tenant_loaded |-> tenant_extension /\ context /\ ~tenant_raises,
               bank_loaded |-> ~load_raises,
               before |-> bank_config]
    /\ config_calls' = config_calls + 1
    /\ UNCHANGED <<config_apart, bank_config, pristine>>

\* config_resolver.py 122-170: update_bank_config
UpdateBankConfig ==
    /\ config_calls < MaxConfigCalls
    /\ \E bank_id \in Banks, updates \in UpdateSamples, execute_raises \in BOOLEAN :
        LET normalized_updates == NormalizeConfigDict(updates)
            outcome == IF InvalidFields(normalized_updates) # {} THEN "ValueError"
                       ELSE IF execute_raises THEN "raised"
                       ELSE "returned"
        IN  /\ config_call' =
                  [op |-> "update", bank |-> bank_id, context |-> FALSE, updates |-> updates,
                   outcome |-> outcome, result |-> EmptyDict, tenant_loaded |-> FALSE,
                   bank_loaded |-> FALSE, before |-> bank_config]
            /\ bank_config' = IF outcome = "returned"
                              THEN MergeConfig(bank_config, bank_id, normalized_updates)
                              ELSE bank_config
            /\ pristine' = IF outcome = "returned" THEN pristine \ {bank_id} ELSE pristine
    /\ config_calls' = config_calls + 1
    /\ UNCHANGED config_apart

\* config_resolver.py 172-190: reset_bank_config
ResetBankConfig ==
    /\ config_calls < MaxConfigCalls
    /\ \E bank_id \in Banks, execute_raises \in BOOLEAN :
        /\ config_call' =
              [op |-> "reset", bank |-> bank_id, context |-> FALSE, updates |-> EmptyDict,
               outcome |-> IF execute_raises THEN "raised" ELSE "returned",
               result |-> EmptyDict, tenant_loaded |-> FALSE, bank_loaded |-> FALSE,
               before |-> bank_config]
        /\ bank_config' = IF execute_raises THEN bank_config
                          ELSE ResetConfig(bank_config, bank_id)
        /\ pristine' = IF execute_raises THEN pristine ELSE pristine \cup {bank_id}
    /\ config_calls' = config_calls + 1
    /\ UNCHANGED config_apart

ConfigNext == GetBankConfig \/ UpdateBankConfig \/ ResetBankConfig

ConfigSpec == ConfigInit /\ [][ConfigNext]_vars

\* ------------------------------------------------------------------ claims
Terminated == pc \in {"returned", "raised"}

LastCall == llm_calls[Len(llm_calls)]

\* the step in which an awaited tool-offering call fails
ToolCallFailure ==
    /\ pc = "await_tools"
    /\ Len(llm_calls') >= Len(llm_calls)
    /\ llm_calls'[Len(llm_calls)].outcome = "failed"

\* the step in which asyncio.gather hands its results back
FanInStep == pc = "exec" /\ pc' # "exec"

\* C1: no non-forced result is returned from a session whose registry is
\* still empty (a completion before any evidence is rejected).
C1_NoResultWithoutEvidence ==
    (pc = "returned" /\ ~result.forced)
        => (available_memory_ids # {} \/ available_model_ids # {})

\* C2: every identifier cited in a returned result (used_memory_ids,
\* used_model_ids, each observation's memory_ids) was returned by a tool call
\* of the session, and an accepted done call always yields a result.
C2_CitationSoundness ==
    /\ pc = "returned" =>
        /\ Range(result.used_memory_ids) \subseteq surfaced_memory_ids
        /\ Range(result.used_model_ids) \subseteq surfaced_model_ids
        /\ \A i \in 1..Len(result.observations) :
               Range(result.observations[i]) \subseteq surfaced_memory_ids
    /\ (llm_calls # <<>> /\ LastCall.outcome = "done_accepted") =>
        (pc = "returned" /\ result.via = "done")

\* a done call citing a fact id no tool returned was accepted, the id is
\* gone from the result and the id that was returned is kept
C2_Witness ==
    /\ pc = "returned"
    /\ result.via = "done"
    /\ LastCall.done_args.memory_ids = <<"m2", "m1">>
    /\ surfaced_memory_ids = {"m1"}
    /\ result.used_memory_ids = <<"m1">>

\* C3: when gather hands back the results of the calls issued together, the
\* tool-result messages, the tool_trace entries and the context_history
\* entries are appended in the order of the request, each carrying the result
\* of its own call (an error payload for a call that raised), whatever the
\* order of completion was.
C3_RequestOrder ==
    [][FanInStep =>
        LET n == Len(tasks)
            out(k) == IF tasks[k].outcome.exc THEN ErrorPayload("exception")
                      ELSE tasks[k].outcome.output
        IN  /\ Len(messages') = Len(messages) + n
            /\ Len(tool_trace') = Len(tool_trace) + n
            /\ Len(context_history') = Len(context_history) + n
            /\ \A k \in 1..n :
                /\ messages'[Len(messages) + k].role = "tool"
                /\ messages'[Len(messages) + k].tool_call_id = tasks[k].call.id
                /\ messages'[Len(messages) + k].content = out(k)
                /\ tool_trace'[Len(tool_trace) + k].id = tasks[k].call.id
                /\ tool_trace'[Len(tool_trace) + k].output = out(k)
                /\ context_history'[Len(context_history) + k].id = tasks[k].call.id
                /\ context_history'[Len(context_history) + k].output = out(k)
    ]_vars

\* two calls were issued together, the second completed first, the first
\* raised, and their results are in the conversation in request order
C3_Witness ==
    /\ pc = "loop"
    /\ completion_order = <<2, 1>>
    /\ Len(messages) >= 3
    /\ messages[Len(messages) - 2].role = "assistant"
    /\ messages[Len(messages) - 2].tool_calls =
           <<messages[Len(messages) - 1].tool_call_id, messages[Len(messages)].tool_call_id>>
    /\ messages[Len(messages) - 1].content = ErrorPayload("exception")
    /\ messages[Len(messages)].content.kind = "memories"

\* every tool-offering call so far was answered with non-completion tool
\* calls only, and no LLM call failed
StubbornLLM ==
    \A i \in 1..Len(llm_calls) :
        /\ llm_calls[i].outcome # "failed"
        /\ llm_calls[i].kind = "tools" => llm_calls[i].outcome \in {"tools", "pending"}

\* C4: with max_iterations = N >= 1 and an LLM that asks for more tools at
\* every tool-offering call, the session ends with a returned result whose
\* iterations field is N and which the forced final call produced; no
\* exception reaches the caller, not even when tools raised.
C4_ForcedTermination ==
    (Terminated /\ max_iterations >= 1 /\ StubbornLLM) =>
        /\ pc = "returned"
        /\ result.via = "final"
        /\ result.forced
        /\ result.iterations = max_iterations
        /\ Len(llm_calls) = max_iterations

\* a session of MaxIterations iterations in which the LLM asked for tools
\* every time, one of which raised, has returned its forced result
C4_Witness ==
    /\ pc = "returned"
    /\ max_iterations = MaxIterations
    /\ StubbornLLM
    /\ total_tools_called >= MaxIterations - 1
    /\ \E k \in 1..Len(tool_trace) : tool_trace[k].output = ErrorPayload("exception")
    /\ result.iterations = MaxIterations

\* C5: a session with max_iterations = N terminates, issues at most N LLM
\* calls (tool-offering and final calls together), and in iteration N offers
\* no tools and executes none.
C5_BoundedTermination ==
    /\ <>Terminated
    /\ [](Len(llm_calls) <= max_iterations)
    /\ []((max_iterations >= 1 /\ iteration = max_iterations - 1)
             => pc \notin {"await_tools", "exec"})

\* a session that used all of its N = MaxIterations LLM calls: N - 1
\* tool-offering calls and the final call
C5_Witness ==
    /\ pc = "returned"
    /\ max_iterations = MaxIterations
    /\ Len(llm_calls) = MaxIterations
    /\ iteration = max_iterations - 1
    /\ LastCall.kind = "final"

\* C6: a tool call that raises does not abort the loop: at the fan-in its
\* result is the error payload of its own tool-result message, the ids in the
\* results of its siblings are committed to the registry, and the session goes
\* on to the next iteration.
C6_ToolFailureContained ==
    [][FanInStep =>
        /\ pc' = "loop"
        /\ iteration' = iteration + 1
        /\ \A k \in 1..Len(tasks) :
            /\ tasks[k].outcome.exc =>
                   messages'[Len(messages) + k] =
                       ToolMessage(tasks[k].call, ErrorPayload("exception"))
            /\ (~tasks[k].outcome.exc /\ tasks[k].call.name = "recall"
                    /\ tasks[k].outcome.output.kind = "memories") =>
                   tasks[k].outcome.output.ids \subseteq available_memory_ids'
            /\ (~tasks[k].outcome.exc
                    /\ tasks[k].call.name \in {"list_mental_models", "get_mental_model"}
                    /\ tasks[k].outcome.output.kind \in {"models", "model"}) =>
                   tasks[k].outcome.output.ids \subseteq available_model_ids'
    ]_vars

\* the recall of a round raised, its sibling listed the models, and the
\* session is at the head of the next iteration with the model id registered
C6_Witness ==
    /\ pc = "loop"
    /\ iteration = 1
    /\ Len(messages) = 5
    /\ messages[4].content = ErrorPayload("exception")
    /\ messages[5].content.kind = "models"
    /\ available_model_ids = StoredModelIds
    /\ available_memory_ids = {}

\* C7 as claimed: after a failure of the tool-offering call with an empty
\* registry the call is re-issued at the same iteration index.
C7_RetrySameIteration ==
    [][(ToolCallFailure /\ available_memory_ids = {} /\ available_model_ids = {}) =>
           (iteration' = iteration /\ ~Terminated')
    ]_vars

\* C7 as amended: after a failure of the tool-offering call with an empty
\* registry the session neither returns nor raises; conversation and registry
\* are unchanged, the failed call has used up its iteration, and the next
\* call is issued from the head of iteration + 1, so that a tool-offering call
\* of any iteration but the first has tool choice "auto".
C7_RetryNextIteration ==
    /\ [][(ToolCallFailure /\ available_memory_ids = {} /\ available_model_ids = {}) =>
             /\ pc' = "loop"
             /\ iteration' = iteration + 1
             /\ iteration' < max_iterations
             /\ messages' = messages
             /\ available_memory_ids' = {} /\ available_model_ids' = {}
       ]_vars
    /\ [](pc = "await_tools" =>
             /\ request.prompt = messages
             /\ request.tool_choice = (IF iteration = 0 THEN "required" ELSE "auto"))

\* the first call failed before any evidence; the call is being made again,
\* in iteration 1, with the same conversation and tool choice "auto"
C7_Witness ==
    /\ pc = "await_tools"
    /\ iteration = 1
    /\ Len(llm_calls) = 2
    /\ llm_calls[1].outcome = "failed"
    /\ request.prompt = <<TextMessage("system"), TextMessage("user")>>
    /\ request.tool_choice = "auto"

\* number of final plain-text calls issued so far
FinalCalls == Cardinality({i \in 1..Len(llm_calls) : llm_calls[i].kind = "final"})

\* C8: when the tool-offering call fails and the registry is not empty, the
\* only thing the session still does is one final plain-text call, built from
\* the accumulated tool results, whose answer it returns in that same
\* iteration: no further tool-offering call, no further tool execution.
C8_FailureAfterEvidence ==
    /\ [][(ToolCallFailure /\ (available_memory_ids # {} \/ available_model_ids # {})) =>
             /\ pc' = "await_final"
             /\ iteration' = iteration
             /\ request' = [kind |-> "final", tool_choice |-> "none",
                            prompt |-> context_history]
             /\ total_tools_called' = total_tools_called
       ]_vars
    /\ [][pc = "await_final" =>
             /\ Terminated'
             /\ iteration' = iteration
             /\ total_tools_called' = total_tools_called
             /\ Len(llm_calls') = Len(llm_calls)
             /\ pc' = "returned" =>
                    /\ result'.via = "final"
                    /\ result'.forced
                    /\ result'.iterations = iteration + 1
       ]_vars
    /\ [](FinalCalls <= 1)

\* a tool-offering call failed after evidence had been gathered and with an
\* iteration to spare; the final call was made and its answer returned
C8_Witness ==
    /\ pc = "returned"
    /\ result.via = "final"
    /\ result.iterations < max_iterations
    /\ Len(llm_calls) >= 2
    /\ llm_calls[Len(llm_calls) - 1].outcome = "failed"
    /\ llm_calls[Len(llm_calls) - 1].iteration = LastCall.iteration
    /\ available_memory_ids # {}

\* C9: no failure reaches the caller unless every LLM call of the session
\* failed.
C9_RaisesOnlyOnOutage ==
    pc = "raised" => \A i \in 1..Len(llm_calls) : llm_calls[i].outcome = "failed"

\* C10 as claimed: the non-completion tool calls of a response are executed
\* whatever else the response contains.
C10_AllProposedExecuted ==
    \A i \in 1..Len(llm_calls) :
        llm_calls[i].proposed > 0 => llm_calls[i].outcome = "tools"

\* C10 as amended: when the response of a non-final iteration holds
\* non-completion tool calls and no done call, all of them are started
\* together in that iteration and each gets its tool-result message; beside a
\* done call none of them is executed.
C10_ExecutedUnlessDone ==
    /\ [][(pc = "await_tools" /\ Len(llm_calls') = Len(llm_calls)
             /\ llm_calls'[Len(llm_calls)].proposed > 0) =>
             IF llm_calls'[Len(llm_calls)].outcome \in {"done_rejected", "done_accepted"}
             THEN /\ pc' \in {"loop", "returned"}
                  /\ tasks' = <<>>
                  /\ total_tools_called' = total_tools_called
             ELSE /\ pc' = "exec"
                  /\ iteration' = iteration
                  /\ Len(tasks') = llm_calls'[Len(llm_calls)].proposed
                  /\ \A k \in 1..Len(tasks') : tasks'[k].status = "running"
                  /\ messages' = Append(messages,
                         [role |-> "assistant", tool_call_id |-> 0, content |-> NoPayload,
                          tool_calls |-> [k \in 1..Len(tasks') |-> tasks'[k].call.id]])
       ]_vars
    /\ [][FanInStep =>
             /\ iteration' = iteration + 1
             /\ total_tools_called' = total_tools_called + Len(tasks)
             /\ \A k \in 1..Len(tasks) :
                    Cardinality({j \in (Len(messages) + 1)..Len(messages') :
                        /\ messages'[j].role = "tool"
                        /\ messages'[j].tool_call_id = tasks[k].call.id}) = 1
       ]_vars

\* a response of two non-completion calls without a done call: both ran and
\* both results are in the conversation after the message announcing them
C10_Witness ==
    /\ pc = "loop"
    /\ llm_calls # <<>>
    /\ LastCall.outcome = "tools"
    /\ LastCall.proposed = 2
    /\ total_tools_called = 2
    /\ Len(messages) = 5
    /\ messages[3].tool_calls = <<messages[4].tool_call_id, messages[5].tool_call_id>>

\* C11: the registry only grows, and it changes only in the step in which
\* gather hands back the results of a round, when every tool task of the round
\* has finished; no step taken while a task is running changes it.
C11_RegistryAppendOnly ==
    [][/\ available_memory_ids \subseteq available_memory_ids'
       /\ available_model_ids \subseteq available_model_ids'
       /\ (available_memory_ids' # available_memory_ids
              \/ available_model_ids' # available_model_ids) =>
            /\ FanInStep
            /\ \A i \in 1..Len(tasks) : tasks[i].status = "finished"
            /\ outstanding = {}
    ]_vars

\* two rounds: the first registered m1, the second recalled nothing, and m1
\* is still registered
C11_Witness ==
    /\ pc = "loop"
    /\ iteration = 2
    /\ Len(tool_trace) = 2
    /\ tool_trace[1].output = Payload("memories", {"m1"}, "")
    /\ tool_trace[2].output = Payload("memories", {}, "")
    /\ available_memory_ids = {"m1"}

\* C12: when an LLM call is awaited and when the session has returned, no
\* tool task started earlier is still running; gather hands back its results
\* only when every task of the round, the siblings of a failed one included,
\* has finished.
C12_NoTaskOutlivesIteration ==
    /\ [](pc \in {"loop", "await_tools", "await_final", "returned"} =>
             (outstanding = {} /\ tasks = <<>>))
    /\ [][FanInStep => \A i \in 1..Len(tasks) : tasks[i].status = "finished"]_vars

\* a call of a round raised and its sibling returned memories; nothing is
\* running any more, and the next LLM call is being made with both results in
\* the conversation
C12_Witness ==
    /\ pc = "await_tools"
    /\ iteration = 1
    /\ completion_order = <<>>
    /\ Len(messages) = 5
    /\ messages[4].content = ErrorPayload("exception")
    /\ messages[5].content.kind = "memories"
    /\ outstanding = {}

\* C13: a call of _execute_tool that lacks an argument its tool schema lists
\* as required, names no known tool, or asks for learn without a learn
\* collaborator returns an error payload, raises nothing and awaits no
\* collaborator.
C13_DispatcherValidation ==
    (/\ dispatch \in {"returned", "raised"}
     /\ \/ ~(Required(tool_name) \subseteq tool_args)
        \/ tool_name = "bogus"
        \/ (tool_name = "learn" /\ ~learn_fn))
    => /\ dispatch = "returned"
       /\ tool_result.output.kind = "error"
       /\ invoked = "none"

\* C14: in a session with max_iterations >= 2 the first tool-offering call
\* has tool choice "required" and every later one "auto", and no answer the
\* model gave as plain text is returned unless some response of the model
\* before it asked for a tool.
C14_ToolUseRequiredFirst ==
    max_iterations >= 2 =>
        /\ \A i \in 1..Len(llm_calls) :
               llm_calls[i].kind = "tools" =>
                   llm_calls[i].tool_choice =
                       (IF \A j \in 1..(i - 1) : llm_calls[j].kind # "tools"
                        THEN "required" ELSE "auto")
        /\ (pc = "returned" /\ result.via = "text") =>
               \E i \in 1..Len(llm_calls) :
                   llm_calls[i].outcome \in {"tools", "done_rejected", "done_accepted"}

\* names of the templates derive_structural_models returned
ReturnedNames == {templates[i].name : i \in 1..Len(templates)}

\* C15: the removals are exactly the ids of the existing models whose name
\* no returned template has, each once; every existing model is either named
\* by a template or in the removals, never both and never neither.  With
\* existing Team and Projects and an answer naming only Projects, Team is
\* removed and Projects is kept.
C15_StructuralDiff ==
    derive = "returned" =>
        /\ {models_to_remove[i] : i \in 1..Len(models_to_remove)} =
               {existing_models[i].id : i \in {k \in 1..Len(existing_models) :
                                                  existing_models[k].name \notin ReturnedNames}}
        /\ \A i, j \in 1..Len(models_to_remove) :
               i # j => models_to_remove[i] # models_to_remove[j]
        /\ \A i \in 1..Len(existing_models) :
               (existing_models[i].name \in ReturnedNames)
                   # (existing_models[i].id \in {models_to_remove[k] : k \in 1..Len(models_to_remove)})
        /\ (/\ existing_models = <<[id |-> "team", name |-> "Team"],
                                    [id |-> "e2", name |-> "Projects"]>>
            /\ ReturnedNames = {"Projects"}) => models_to_remove = <<"team">>

\* the example: Team and Projects exist, the answer names only Projects
C15_Witness ==
    /\ derive = "returned"
    /\ existing_models = <<[id |-> "team", name |-> "Team"], [id |-> "e2", name |-> "Projects"]>>
    /\ templates = <<[id |-> "projects", name |-> "Projects"]>>
    /\ models_to_remove = <<"team">>

\* C16: derive_structural_models returns at most three templates, whatever
\* the LLM answered.
C16_AtMostThreeTemplates ==
    derive = "returned" => Len(templates) <= TemplateLimit

\* C17: every observation of a returned result cites at least one memory
\* id: an observation whose ids were all filtered out, or that came with
\* none, is not in the result.
C17_ObservationsCarryEvidence ==
    (pc = "returned" /\ result.has_observations) =>
        /\ \A i \in 1..Len(result.observations) : result.observations[i] # <<>>
        /\ Len(result.observations) =
               Cardinality({i \in 1..Len(LastCall.done_args.observations) :
                   \E k \in 1..Len(LastCall.done_args.observations[i]) :
                       LastCall.done_args.observations[i][k] \in available_memory_ids})

NoRepeats(ids) == \A i, j \in 1..Len(ids) : i # j => ids[i] # ids[j]

\* C18: no identifier occurs twice in used_memory_ids or in used_model_ids
\* of a returned result, in either output mode.
C18_CitedIdsFormSet ==
    pc = "returned" => (NoRepeats(result.used_memory_ids) /\ NoRepeats(result.used_model_ids))

\* done calls rejected so far
Rejections == Cardinality({i \in 1..Len(llm_calls) : llm_calls[i].outcome = "done_rejected"})

\* the tools of an offer that are not the done tool
NonCompletion(tools) == SelectSeq(tools, LAMBDA n : n \notin {"done_answer", "done_observations"})

\* C19: the session run with the other output mode and given the same LLM
\* and tool responses is at every moment at the same place: same position,
\* iteration, tool choice, non-completion tools offered, tools executed in the
\* same order with the same results, registry, rejections and calls counted;
\* its result, when it returns, differs only in what is built from the done
\* arguments.
C19_OutputModeIndependence ==
    /\ twin.mode # output_mode
    /\ twin.pc = pc
    /\ twin.iteration = iteration
    /\ twin.tool_choice = request.tool_choice
    /\ pc = "await_tools" =>
           /\ NonCompletion(twin.offered) = NonCompletion(request.tools)
           /\ twin.offered # request.tools
    /\ twin.running = [i \in 1..Len(tasks) |-> tasks[i].call]
    /\ twin.trace = tool_trace
    /\ twin.memory_ids = available_memory_ids
    /\ twin.model_ids = available_model_ids
    /\ twin.rejections = Rejections
    /\ twin.tools_called = total_tools_called
    /\ twin.created = mental_models_created
    /\ twin.result.via = result.via
    /\ twin.result.forced = result.forced
    /\ twin.result.iterations = result.iterations
    /\ twin.result.tools_called = result.tools_called
    /\ twin.result.mental_models_created = result.mental_models_created
    /\ twin.result.tool_trace_len = result.tool_trace_len

\* a done call in the observations shape was accepted after a round of
\* tools; the observations session returned observations, its twin in answer
\* mode returned after as many iterations without any
C19_Witness ==
    /\ pc = "returned"
    /\ output_mode = "observations"
    /\ total_tools_called >= 1
    /\ result.via = "done"
    /\ result.has_observations
    /\ result.used_memory_ids # <<>>
    /\ ~twin.result.has_observations
    /\ twin.result.used_memory_ids = <<>>
    /\ twin.result.iterations = 2
    /\ twin.result.tools_called = total_tools_called

CompareStep == stage = "compare" /\ stage' # "compare"

\* C21: Compare never loses evidence: every existing observation that is
\* kept or updated holds afterwards every evidence entry it held before, and
\* the Compare prompt lists every evidence entry of every existing
\* observation.
C21_EvidenceNeverLost ==
    [][CompareStep =>
        \A c \in ObservationContents :
            /\ ~candidates[c].contradicted =>
                   Range(stored_observations[c]) \subseteq Range(stored_observations'[c])
            /\ compare_prompt'.existing[c].evidence = stored_observations[c]
    ]_vars

C23_NoTagsNoFilter ==
    (tags.none \/ Len(tags.list) = 0) =>
        /\ simple_result # <<>> => simple_result = <<"">>
        /\ clause_result # <<>> => clause_result = <<"", <<>>, param_offset>>

\* both builders returned for an empty list, alias mu., match all, number 3
C23_Witness ==
    /\ ~tags.none
    /\ tags.list = <<>>
    /\ table_alias = "mu."
    /\ match = "all"
    /\ param_offset = 3
    /\ simple_result = <<"">>
    /\ clause_result = <<"", <<>>, 3>>

\* the clause the documentation of the builders gives: AND <alias>tags <op> $<n>
ExpectedClause(alias, op, n) == "AND " \o alias \o "tags " \o op \o " $" \o ToString(n)

\* C24: for a non-empty tag list both builders return the clause
\* AND <alias>tags <op> $<n>, with the overlap operator && exactly for match
\* any and the contains operator @> exactly for match all;
\* build_tags_where_clause also returns the tag list as its one parameter
\* and n + 1 as the next offset, and its clause is the clause of
\* build_tags_where_clause_simple.
C24_BuildersAgree ==
    (~tags.none /\ tags.list # <<>>) =>
        LET any == ExpectedClause(table_alias, "&&", param_offset)
            all == ExpectedClause(table_alias, "@>", param_offset)
        IN  /\ simple_result # <<>> =>
                /\ simple_result[1] \in {any, all}
                /\ simple_result[1] = any <=> match = "any"
                /\ simple_result[1] = all <=> match = "all"
            /\ clause_result # <<>> =>
                /\ clause_result[1] \in {any, all}
                /\ clause_result[1] = any <=> match = "any"
                /\ clause_result[1] = all <=> match = "all"
                /\ clause_result[2] = <<tags.list>>
                /\ clause_result[3] = param_offset + 1
            /\ (simple_result # <<>> /\ clause_result # <<>>) =>
                clause_result[1] = simple_result[1]

\* both builders returned AND mu.tags @> $3 for two tags matched with all
C24_Witness ==
    /\ tags = [none |-> FALSE, list |-> <<"user_a", "user_b">>]
    /\ table_alias = "mu."
    /\ match = "all"
    /\ param_offset = 3
    /\ simple_result = <<"AND mu.tags @> $3">>
    /\ clause_result = <<"AND mu.tags @> $3", <<(<<"user_a", "user_b">>)>>, 4>>

\* the override a layer holds for a field, under any spelling of its key
Overrides(d, f) == \E k \in Keys : d[k] # Absent /\ FieldOf(k) = f
OverrideOf(d, f) == d[CHOOSE k \in Keys : d[k] # Absent /\ FieldOf(k) = f]

\* what get_bank_config is to return for a field, given which of the two
\* override layers count
Resolved(f, bank_counts, tenant_counts) ==
    IF f \in HierarchicalFields /\ bank_counts /\ Overrides(bank_config[config_call.bank], f)
    THEN OverrideOf(bank_config[config_call.bank], f)
    ELSE IF f \in HierarchicalFields /\ tenant_counts /\ Overrides(tenant_overrides, f)
    THEN OverrideOf(tenant_overrides, f)
    ELSE GlobalConfig[f]

\* C25 as stated: every hierarchical field of the returned configuration
\* has the bank override if one is stored, otherwise the tenant override if
\* one exists, otherwise the global value, and every static field has the
\* global value.
C25_ResolutionOrder ==
    config_call.op = "get" =>
        \A f \in HierarchicalFields \cup StaticFields :
            config_call.result[f] =
                Resolved(f, TRUE, tenant_extension /\ config_call.context)

\* C25 amended: a layer counts when it could be loaded: the bank override
\* if one is stored and the bank's row was read, otherwise the tenant
\* override if one exists and get_tenant_config returned, otherwise the
\* global value; every static field has the global value.
C25_ResolutionOrderOfLoadedLayers ==
    config_call.op = "get" =>
        \A f \in HierarchicalFields \cup StaticFields :
            config_call.result[f] =
                Resolved(f, config_call.bank_loaded, config_call.tenant_loaded)

\* the tenant overrides llm_provider (in env var format) and retain_mission,
\* bank b1 overrides retain_mission and holds a stale database_url: the
\* configuration of b1 has the tenant's provider, the bank's mission and
\* the global database_url
C25_Witness ==
    /\ config_call.op = "get"
    /\ config_call.bank = "b1"
    /\ config_call.tenant_loaded
    /\ config_call.bank_loaded
    /\ tenant_overrides[EnvKey] = "t2"
    /\ tenant_overrides["retain_mission"] = "t1"
    /\ bank_config["b1"]["retain_mission"] = "v1"
    /\ bank_config["b1"]["llm_provider"] = Absent
    /\ bank_config["b1"]["database_url"] = "v1"
    /\ config_call.result["llm_provider"] = "t2"
    /\ config_call.result["retain_mission"] = "v1"
    /\ config_call.result["database_url"] = "global"

\* C26: update_bank_config with updates holding a key that is not a
\* hierarchical field, static or unknown, raises ValueError and writes
\* nothing: the stored overrides of every bank are as before the call, the
\* valid keys of the call included.
C26_InvalidUpdateWritesNothing ==
    (/\ config_call.op = "update"
     /\ \E k \in Keys : config_call.updates[k] # Absent /\ FieldOf(k) \notin HierarchicalFields)
        => /\ config_call.outcome = "ValueError"
           /\ bank_config = config_call.before

\* an update of b1 with retain_mission and an unknown key was refused and
\* the mission b1 had stored is still there
C26_Witness ==
    /\ config_call.op = "update"
    /\ config_call.bank = "b1"
    /\ config_call.updates["retain_mission"] = "v2"
    /\ config_call.updates["bogus"] = "v1"
    /\ config_call.outcome = "ValueError"
    /\ bank_config["b1"]["retain_mission"] = "v1"

\* C27: when reset_bank_config(b) has returned, b has no override stored
\* and the overrides of every other bank are as before; and as long as b is
\* not updated again, get_bank_config(b) is the configuration resolved from
\* the global and tenant layers only.
C27_ResetRemovesOverrides ==
    /\ (config_call.op = "reset" /\ config_call.outcome = "returned") =>
           /\ KeysOf(bank_config[config_call.bank]) = {}
           /\ \A b \in Banks \ {config_call.bank} : bank_config[b] = config_call.before[b]
    /\ (config_call.op = "get" /\ config_call.bank \in pristine) =>
           \A f \in HierarchicalFields \cup StaticFields :
               config_call.result[f] = Resolved(f, FALSE, config_call.tenant_loaded)

\* b1 was updated with an llm_provider, then reset while b2 holds overrides,
\* and the configuration of b1 read afterwards has the global provider
C27_Witness ==
    /\ config_call.op = "get"
    /\ config_call.bank = "b1"
    /\ config_call.bank_loaded
    /\ config_calls = 3
    /\ pristine = {"b1"}
    /\ KeysOf(bank_config["b1"]) = {}
    /\ KeysOf(bank_config["b2"]) # {}
    /\ tenant_overrides = EmptyDict
    /\ config_call.result["llm_provider"] = "global"

\* the loop iterations entered: each one awaits an LLM call of its own
IterationsEntered ==
    Cardinality({llm_calls[i].iteration : i \in 1..Len(llm_calls)})

\* C28: with max_iterations >= 1 no session returns through the fallback
\* after the loop: a session ends inside the loop, and the iterations field
\* of a returned result is at least 1, at most max_iterations, and the
\* number of loop iterations entered.
C28_FallbackUnreachable ==
    /\ (Terminated /\ max_iterations >= 1) => iteration < max_iterations
    /\ (pc = "returned" /\ max_iterations >= 1) =>
        /\ result.via # "fallback"
        /\ 1 <= result.iterations
        /\ result.iterations <= max_iterations
        /\ result.iterations = IterationsEntered

\* a session with max_iterations = 3 was rejected once, gathered evidence,
\* and returned the forced answer of its third and last iteration
C28_Witness ==
    /\ pc = "returned"
    /\ max_iterations = 3
    /\ Rejections = 1
    /\ total_tools_called >= 1
    /\ result.via = "final"
    /\ result.iterations = 3
    /\ IterationsEntered = 3

\* the step in which a tool-offering call comes back with a done call
DoneResponseStep ==
    /\ pc = "await_tools"
    /\ Len(llm_calls') >= Len(llm_calls)
    /\ llm_calls'[Len(llm_calls)].outcome \in {"done_accepted", "done_rejected"}

\* C29: when the response of a non-final iteration holds a done call and
\* the registry is not empty, the session returns in that step a non-forced
\* result whose iterations field is the number of that iteration; the done
\* call is neither rejected nor put after other calls of the response.
C29_DoneHonouredAfterEvidence ==
    [][(DoneResponseStep /\ HasGatheredEvidence(available_memory_ids, available_model_ids))
        => /\ pc' = "returned"
           /\ result'.via = "done"
           /\ ~result'.forced
           /\ result'.iterations = iteration + 1
           /\ llm_calls'[Len(llm_calls)].outcome = "done_accepted"
           /\ UNCHANGED <<tasks, messages, total_tools_called>>
    ]_vars

\* in the second of three iterations, with a fact in the registry, the
\* response held a done call beside a recall and the session returned
C29_Witness ==
    /\ pc = "returned"
    /\ max_iterations = 3
    /\ iteration = 1
    /\ available_memory_ids # {}
    /\ LastCall.outcome = "done_accepted"
    /\ LastCall.proposed = 1
    /\ result.via = "done"
    /\ ~result.forced
    /\ result.iterations = 2

\* the name a tool of the list goes by: both done schemas are named done
NameOf(tool) == IF tool \in {"done_answer", "done_observations"} THEN "done" ELSE tool

\* C30: the tools offered by a session, for every enable_learn and
\* output_mode: list_mental_models, get_mental_model, recall and expand are
\* among them, learn is among them exactly when a learn collaborator was
\* supplied, and exactly one tool is named done, it is the last one, and its
\* schema is the observations shape exactly in observations mode.
C30_ToolsOffered ==
    request.kind = "tools" =>
        LET tools == request.tools
            names == {NameOf(tools[i]) : i \in 1..Len(tools)}
        IN  /\ {"list_mental_models", "get_mental_model", "recall", "expand"} \subseteq names
            /\ "learn" \in names <=> enable_learn
            /\ Cardinality({i \in 1..Len(tools) : NameOf(tools[i]) = "done"}) = 1
            /\ NameOf(tools[Len(tools)]) = "done"
            /\ tools[Len(tools)] = "done_observations" <=> output_mode = "observations"
            /\ tools[Len(tools)] = "done_answer" <=> output_mode = "answer"

\* a session without a learn collaborator, in observations mode, awaits the
\* answer to a call that offers five tools
C30_Witness ==
    /\ pc = "await_tools"
    /\ ~enable_learn
    /\ output_mode = "observations"
    /\ request.tools = <<"list_mental_models", "get_mental_model", "recall", "expand",
                         "done_observations">>

\* the step in which a done call is rejected by the guardrail
RejectionStep ==
    /\ pc = "await_tools"
    /\ Len(llm_calls') >= Len(llm_calls)
    /\ llm_calls'[Len(llm_calls)].outcome = "done_rejected"

\* C31: the rejection of a premature done appends to the conversation one
\* assistant message carrying the one done call and then one tool-result
\* message with the id of that call and an error, and leaves the registry,
\* tools_called, tool_trace, mental_models_created and the context history
\* of the final prompt as they were.
C31_RejectionFrame ==
    [][RejectionStep =>
        /\ Len(messages') = Len(messages) + 2
        /\ SubSeq(messages', 1, Len(messages)) = messages
        /\ messages'[Len(messages) + 1].role = "assistant"
        /\ Len(messages'[Len(messages) + 1].tool_calls) = 1
        /\ messages'[Len(messages) + 2].role = "tool"
        /\ messages'[Len(messages) + 2].tool_call_id =
               messages'[Len(messages) + 1].tool_calls[1]
        /\ messages'[Len(messages) + 2].content.kind = "error"
        /\ UNCHANGED <<available_memory_ids, available_model_ids, total_tools_called,
                       tool_trace, mental_models_created, context_history>>
    ]_vars

\* the first response held a recall and a done call; the done call was
\* rejected, the recall was not run, and the conversation grew by two
C31_Witness ==
    /\ pc = "loop"
    /\ iteration = 1
    /\ LastCall.outcome = "done_rejected"
    /\ LastCall.proposed = 1
    /\ Len(messages) = 4
    /\ messages[3].role = "assistant"
    /\ messages[4].role = "tool"
    /\ messages[4].tool_call_id = messages[3].tool_calls[1]
    /\ total_tools_called = 0
    /\ tool_trace = <<>>
    /\ context_history = <<>>

\* every assistant message of msgs is followed by the tool results of the
\* calls it lists, one each and in their order, and every tool result
\* belongs to the assistant message before it
WellFormed(msgs) ==
    /\ \A i \in 1..Len(msgs) :
        msgs[i].role = "assistant" =>
            LET n == Len(msgs[i].tool_calls)
            IN  /\ i + n <= Len(msgs)
                /\ \A k \in 1..n :
                       /\ msgs[i + k].role = "tool"
                       /\ msgs[i + k].tool_call_id = msgs[i].tool_calls[k]
                /\ i + n < Len(msgs) => msgs[i + n + 1].role # "tool"
    /\ \A j \in 1..Len(msgs) :
        msgs[j].role = "tool" =>
            \E i \in 1..(j - 1) :
                /\ msgs[i].role = "assistant"
                /\ j - i <= Len(msgs[i].tool_calls)
                /\ msgs[j].tool_call_id = msgs[i].tool_calls[j - i]

\* C32: the conversation sent with every tool-offering LLM call is well
\* formed: each assistant message with tool calls is followed at once by
\* exactly one tool result per call it lists, with the id of that call and
\* in the same order, and no tool result carries an id the assistant
\* message before it did not list.
C32_ConversationWellFormed ==
    (pc = "await_tools" /\ request.kind = "tools") =>
        /\ request.prompt = messages
        /\ WellFormed(request.prompt)

\* the second tool-offering call is sent after a round of two calls whose
\* second call finished first: the assistant message lists both and their
\* two results follow in the order listed
C32_Witness ==
    /\ pc = "await_tools"
    /\ iteration = 1
    /\ Len(request.prompt) = 5
    /\ request.prompt[3].role = "assistant"
    /\ Len(request.prompt[3].tool_calls) = 2
    /\ request.prompt[4].tool_call_id = request.prompt[3].tool_calls[1]
    /\ request.prompt[5].tool_call_id = request.prompt[3].tool_calls[2]
    /\ request.prompt[4].content.kind = "error"
    /\ request.prompt[5].content.kind = "memories"

\* the non-completion calls run in the rounds the answered calls started
RECURSIVE Executed(_)
Executed(calls) ==
    IF calls = <<>> THEN 0
    ELSE (IF Head(calls).outcome = "tools" THEN Head(calls).proposed ELSE 0)
             + Executed(Tail(calls))

\* C33: in a returned result tools_called is the length of tool_trace and
\* the number of non-completion calls run in the session, failed ones
\* included; a done call, rejected or accepted, is neither counted nor
\* traced.
C33_ToolsCalledIsTraceLength ==
    pc = "returned" =>
        /\ result.tools_called = result.tool_trace_len
        /\ result.tool_trace_len = Len(tool_trace)
        /\ result.tools_called = Executed(llm_calls)
        /\ \A i \in 1..Len(tool_trace) : tool_trace[i].tool # "done"

\* a first done call was rejected, a round of two calls followed, one of
\* them raising, and the forced answer counts two calls
C33_Witness ==
    /\ pc = "returned"
    /\ Rejections = 1
    /\ result.tools_called = 2
    /\ Len(tool_trace) = 2
    /\ tool_trace[1].output.kind = "error"
    /\ result.via = "final"

\* the ids held by the traced results of the given tools and kinds
TracedIds(tools, kinds) ==
    UNION {tool_trace[i].output.ids :
              i \in {j \in 1..Len(tool_trace) :
                         /\ tool_trace[j].tool \in tools
                         /\ tool_trace[j].output.kind \in kinds}}

\* C34: the registry has typed sources: available_memory_ids holds exactly
\* the ids of the memories of the recall results of the session, and
\* available_model_ids exactly the ids of the models of its
\* list_mental_models and get_mental_model results; a model that was not
\* found, expand and learn results, error payloads and raised calls add
\* nothing, so a session that ran only such calls has an empty registry.
C34_RegistrySourcesTyped ==
    /\ available_memory_ids = TracedIds({"recall"}, {"memories"})
    /\ available_model_ids =
           TracedIds({"list_mental_models", "get_mental_model"}, {"model", "models"})
    /\ (\A i \in 1..Len(tool_trace) :
            \/ tool_trace[i].tool \in {"expand", "learn", "bogus"}
            \/ tool_trace[i].output.kind \in {"error", "notfound"})
          => (available_memory_ids = {} /\ available_model_ids = {})

\* a round of an expand showing two facts and a learn creating a model
\* left both sets of the registry empty
C34_Witness ==
    /\ pc = "loop"
    /\ Len(tool_trace) = 2
    /\ tool_trace[1].tool = "expand"
    /\ tool_trace[1].output.ids = MemIds
    /\ tool_trace[2].tool = "learn"
    /\ tool_trace[2].output.ids = {LearnedModelId}
    /\ available_memory_ids = {}
    /\ available_model_ids = {}

\* the model ids of the traced learn results that hold one, in trace order
RECURSIVE LearnedIn(_)
LearnedIn(trace) ==
    IF trace = <<>> THEN <<>>
    ELSE (IF /\ Head(trace).tool = "learn"
             /\ Head(trace).output.kind = "learned"
             /\ Head(trace).output.ids # {}
          THEN <<CHOOSE m \in Head(trace).output.ids : TRUE>>
          ELSE <<>>) \o LearnedIn(Tail(trace))

\* C35: mental_models_created of a returned result, forced or not, is the
\* sequence of the model ids returned by the learn calls of the session
\* that succeeded, in the order of the requests; a learn call that raised,
\* was refused by the dispatcher or returned no model_id adds nothing.
C35_CreatedModelsInRequestOrder ==
    pc = "returned" =>
        /\ result.mental_models_created = LearnedIn(tool_trace)
        /\ result.mental_models_created = mental_models_created

\* two learn calls of one response returned mm3 and mm2, the second one
\* first, and the forced result lists mm3 before mm2
C35_Witness ==
    /\ pc = "returned"
    /\ result.forced
    /\ Len(tool_trace) = 2
    /\ tool_trace[1].tool = "learn"
    /\ tool_trace[1].output.ids = {"mm3"}
    /\ tool_trace[2].tool = "learn"
    /\ tool_trace[2].output.ids = {"mm2"}
    /\ result.mental_models_created = <<"mm3", "mm2">>

\* the step in which a tool-offering call comes back with nothing
EmptyResponseStep ==
    /\ pc = "await_tools"
    /\ Len(llm_calls') >= Len(llm_calls)
    /\ llm_calls'[Len(llm_calls)].outcome = "empty"

\* C36: a response with neither tool calls nor content ends the session:
\* the forced final call is issued in the same step and iteration, no other
\* LLM call or tool follows, and the result returned is the forced one with
\* iterations equal to the number of that iteration, whatever iterations
\* remain and whether or not the registry is empty.
C36_EmptyResponseForcesFinal ==
    /\ [][EmptyResponseStep =>
             /\ pc' = "await_final"
             /\ iteration' = iteration
             /\ request'.kind = "final"
             /\ Len(llm_calls') = Len(llm_calls) + 1
             /\ llm_calls'[Len(llm_calls')].kind = "final"
             /\ UNCHANGED <<messages, total_tools_called, tool_trace>>
       ]_vars
    /\ [](\A i \in 1..Len(llm_calls) :
             llm_calls[i].outcome = "empty" =>
                 /\ Len(llm_calls) = i + 1
                 /\ llm_calls[i + 1].kind = "final"
                 /\ llm_calls[i + 1].iteration = llm_calls[i].iteration
                 /\ FinalCalls = 1
                 /\ iteration = llm_calls[i].iteration
                 /\ pc \in {"await_final", "returned", "raised"}
                 /\ pc = "returned" =>
                        /\ result.via = "final"
                        /\ result.forced
                        /\ result.iterations = llm_calls[i].iteration + 1)

\* with three iterations allowed and nothing in the registry, the response
\* of the second iteration was empty and the forced answer was returned
\* with iterations = 2
C36_Witness ==
    /\ pc = "returned"
    /\ max_iterations = 3
    /\ available_memory_ids = {}
    /\ available_model_ids = {}
    /\ Len(llm_calls) = 3
    /\ llm_calls[2].outcome = "empty"
    /\ llm_calls[3].kind = "final"
    /\ result.forced
    /\ result.iterations = 2

\* positions of the ids of a citation list that the registry knows
KeptPositions(ids, available) == {j \in 1..Len(ids) : ids[j] \in available}

\* out holds exactly the known ids of ids, each occurrence, in their order
IsFilteredList(out, ids, available) ==
    /\ Len(out) = Cardinality(KeptPositions(ids, available))
    /\ \A j \in KeptPositions(ids, available) :
           out[Cardinality({k \in KeptPositions(ids, available) : k <= j})] = ids[j]

\* where an id occurs in a list of citation lists
Occurrences(obs, x) ==
    UNION {{<<i, k>> : k \in {n \in 1..Len(obs[i]) : obs[i][n] = x}} : i \in 1..Len(obs)}

Before(p, q) == p[1] < q[1] \/ (p[1] = q[1] /\ p[2] < q[2])

\* some occurrence of x lies before every occurrence of y
FirstSeenBefore(obs, x, y) ==
    \E p \in Occurrences(obs, x) : \A q \in Occurrences(obs, y) : Before(p, q)

\* C37: in observations mode the observations of the result are those of
\* the accepted done call, one for one and in order, each citation list
\* filtered on its own against the memory ids of the registry, and
\* used_memory_ids lists the retained ids once each in the order of their
\* first occurrence.
C37_ObservationsFilteredInOrder ==
    (pc = "returned" /\ result.via = "done" /\ result.has_observations) =>
        LET given == LastCall.done_args.observations
            kept == result.observations
            used == result.used_memory_ids
        IN  /\ output_mode = "observations"
            /\ Len(kept) = Len(given)
            /\ \A i \in 1..Len(given) : IsFilteredList(kept[i], given[i], available_memory_ids)
            /\ Range(used) = UNION {Range(kept[i]) : i \in 1..Len(kept)}
            /\ NoRepeats(used)
            /\ \A a, b \in 1..Len(used) : a < b => FirstSeenBefore(kept, used[a], used[b])

\* three observations returned for three given: an unknown id filtered out
\* of the first, the second without citations, the third repeating an id of
\* the first
C37_Witness ==
    /\ pc = "returned"
    /\ result.via = "done"
    /\ result.has_observations
    /\ available_memory_ids = {"m1"}
    /\ LastCall.done_args.observations = <<<<"m2", "m1">>, <<>>, <<"m1">>>>
    /\ result.observations = <<<<"m1">>, <<>>, <<"m1">>>>
    /\ result.used_memory_ids = <<"m1">>

\* the id the rule gives each name: lower case, hyphens for spaces and
\* underscores
StableId ==
    [n \in TemplateNames |->
        CASE n = "Team" -> "team"
          [] n = "Projects" -> "projects"
          [] n = "Key_Systems Map" -> "key-systems-map"]

\* C38: every returned template is the template the LLM gave, with the id
\* the LLM supplied if it supplied one and otherwise the id made from the
\* name by lower-casing and putting hyphens for spaces and underscores; the
\* assignment is stable: templates of one name get one id, assigning ids
\* to the returned templates again changes nothing, and no returned
\* template is without an id.
C38_StableTemplateIds ==
    derive = "returned" =>
        /\ Len(templates) = Len(llm_templates)
        /\ \A i \in 1..Len(templates) :
               /\ templates[i].name = llm_templates[i].name
               /\ llm_templates[i].id # "" => templates[i].id = llm_templates[i].id
               /\ llm_templates[i].id = "" => templates[i].id = StableId[templates[i].name]
               /\ templates[i].id # ""
        /\ \A i, j \in 1..Len(templates) :
               (/\ llm_templates[i].id = ""
                /\ llm_templates[j].id = ""
                /\ templates[i].name = templates[j].name) => templates[i].id = templates[j].id
        /\ WithStableIds(templates) = templates

\* the LLM named a template with a space, an underscore and capitals and
\* gave it no id, named Team twice without an id, and gave a template an id
\* of its own
C38_Witness ==
    /\ derive = "returned"
    /\ llm_templates = <<[id |-> "", name |-> "Key_Systems Map"], [id |-> "", name |-> "Team"],
                         [id |-> "t9", name |-> "Team"], [id |-> "", name |-> "Team"]>>
    /\ templates = <<[id |-> "key-systems-map", name |-> "Key_Systems Map"],
                     [id |-> "team", name |-> "Team"], [id |-> "t9", name |-> "Team"],
                     [id |-> "team", name |-> "Team"]>>

\* get_tenant_config was called by the last call and raised
TenantFailed == tenant_extension /\ config_call.context /\ ~config_call.tenant_loaded

\* a configuration with the hierarchical overrides of one layer applied
WithOverrides(base, layer) ==
    [f \in HierarchicalFields \cup StaticFields |->
        IF f \in HierarchicalFields /\ Overrides(layer, f) THEN OverrideOf(layer, f)
        ELSE base[f]]

Fields(d) == [f \in HierarchicalFields \cup StaticFields |-> d[f]]

\* C39: get_bank_config returns whatever layer fails: when
\* get_tenant_config raises the result is the global configuration with the
\* bank's overrides, when the bank's row cannot be read it is the global
\* configuration with the tenant's overrides, and when both fail it is the
\* global configuration.
C39_LayerFailureTolerated ==
    config_call.op = "get" =>
        /\ config_call.outcome = "returned"
        /\ (TenantFailed /\ config_call.bank_loaded) =>
               Fields(config_call.result) =
                   WithOverrides(GlobalConfig, bank_config[config_call.bank])
        /\ (config_call.tenant_loaded /\ ~config_call.bank_loaded) =>
               Fields(config_call.result) = WithOverrides(GlobalConfig, tenant_overrides)
        /\ (TenantFailed /\ ~config_call.bank_loaded) =>
               Fields(config_call.result) = Fields(GlobalConfig)

\* the tenant extension, which would override both fields, raised: the
\* configuration of b1 has the bank's mission and the global provider
C39_Witness ==
    /\ config_call.op = "get"
    /\ config_call.bank = "b1"
    /\ TenantFailed
    /\ config_call.bank_loaded
    /\ tenant_overrides[EnvKey] = "t2"
    /\ tenant_overrides["retain_mission"] = "t1"
    /\ bank_config["b1"]["retain_mission"] = "v1"
    /\ config_call.outcome = "returned"
    /\ config_call.result["retain_mission"] = "v1"
    /\ config_call.result["llm_provider"] = "global"

\* the last call was an update_bank_config that returned
UpdateSucceeded == config_call.op = "update" /\ config_call.outcome = "returned"

\* C40: a successful update_bank_config merges: in the row of its bank
\* every field the update names, in either key format, has the value the
\* update gives it, every other key is stored as before, the rows of the
\* other banks are as before, and every key the update stores is a
\* hierarchical field; so after any sequence of updates each field has
\* the value of the last update that named it.
C40_UpdateMerges ==
    UpdateSucceeded =>
        LET row == bank_config[config_call.bank]
            old == config_call.before[config_call.bank]
        IN  /\ \A f \in Keys :
                   IF Overrides(config_call.updates, f)
                   THEN /\ row[f] = OverrideOf(config_call.updates, f)
                        /\ f \in HierarchicalFields
                   ELSE row[f] = old[f]
            /\ \A b \in Banks \ {config_call.bank} : bank_config[b] = config_call.before[b]

\* b1 held a mission and, from an earlier update, the provider v1; an
\* update that names the provider alone, in env var format, stored v2 and
\* left the mission
C40_Witness ==
    /\ UpdateSucceeded
    /\ config_call.bank = "b1"
    /\ config_call.updates = Dict([HINDSIGHT_API_LLM_PROVIDER |-> "v2"])
    /\ config_call.before["b1"]["llm_provider"] = "v1"
    /\ config_call.before["b1"]["retain_mission"] = "v1"
    /\ bank_config["b1"]["llm_provider"] = "v2"
    /\ bank_config["b1"]["retain_mission"] = "v1"
    /\ bank_config["b1"][EnvKey] = Absent

====
